---- MODULE Spec2Model ----
(***************************************************************************)
(* Relay server of OrbitXE (src/server/index.js): the room registry, the   *)
(* WebSocket message handler, the close handler with its reap timer and    *)
(* the two room-creation routes.                                           *)
(***************************************************************************)
EXTENDS Integers, Sequences, FiniteSets, TLC

\* ---------------------------------------------------------------- bounds
MaxConns == 3          \* sockets accepted during one behaviour
RelayConns == 2        \* routing scope: sockets accepted
FairConns == 1         \* reaping scope: sockets accepted
RouteConns == 2        \* single-sender scope: sockets accepted
TwoConns == 2          \* two-session scope: sockets accepted
TickStep == 30000      \* granularity of the modelled clock (ms)
RelayMaxTime == 60000  \* routing scope: last instant of the clock
LifeInputUntil == 60000 \* lifecycle scope: last instant at which inputs arrive
LifeMaxTime == 120000  \* lifecycle scope: last instant of the clock

\* ------------------------------------------------------ program constants
GRACE == 60000         \* delay of the reap timer
OPEN == 1              \* WebSocket.OPEN, the readyState the handlers test for
CLOSING == OPEN + 1    \* WebSocket.CLOSING: transport going down, close event pending
CLOSED == OPEN + 2     \* WebSocket.CLOSED: close event emitted

Codes == {"AAAAAA", "BBBBBB"}     \* values of nanoid(6).toUpperCase() / URL codes
Conns == 1..MaxConns
Roles == {"display", "controller"}
Subtypes == {"none", "tv"}
NoTimer == 0 - 1

ToDisplayTypes == {"action", "mouse", "keyboard", "scroll", "showCursor"}
ToControllerTypes == {"activeTab", "tabList"}
TvStateTypes == {"tvState", "nowPlaying"}
TvTypes == {"launchApp", "volume", "voice", "home"}
OtherTypes == {"switchTab", "openTab", "getTabs", "showKeyboard", "dpad",
               "gesture", "motion", "setProfile"}
RelayTypes == ToDisplayTypes \cup ToControllerTypes \cup TvStateTypes
                \cup TvTypes \cup OtherTypes

\* Inbound frames: a join, a ping, a relayable message carrying a principal
\* argument and one further field, or data that JSON.parse rejects.
JoinMsgs == [type : {"join"}, role : Roles, subtype : Subtypes]
DataMsgs == [type : RelayTypes, arg : {"a1"}, extra : {"x"}]
              \cup [type : {"launchApp"}, arg : {"a2"}, extra : {"x"}]

VARIABLES
  rooms,       \* the Map `rooms`: code -> room object
  ws,          \* the sockets: roomId, role, subtype, readyState
  nextWs,      \* number of sockets accepted so far
  timers,      \* pending setTimeout of each socket's close handler (fire time)
  now,         \* Date.now()
  sent,        \* frames each socket was sent by the last handled event
  last,        \* the last handled event
  emptySince,  \* instant at which each room's two sets last became both empty
  leftAt,      \* instant of the last close handled for a member of each room
  leftSeq,     \* number of sockets accepted when that close was handled
  scope,       \* the inputs explored in this behaviour
  client,      \* a client's reconnect state: attempts, pending retry, phase
  kbd,         \* desktop app: key commands in flight and key events emitted
  mouse,       \* desktop app, native backend: cursor and moves in flight
  cli,         \* desktop app, cliclick backend: pending move and flush timer
  media,       \* desktop app: media commands in flight and their attempts
  scroll,      \* desktop app: scroll commands in flight and their calls
  page,        \* content script: location, active profile, last action handled
  srv,         \* desktop app: local server state (history, devices, settings)
  bg           \* extension background: ws, roomId, sockets, calls in flight

lateVars == <<scroll, page, srv, bg>>

desktopVars == <<client, kbd, mouse, cli, media, lateVars>>

relayVars == <<rooms, ws, nextWs, timers, now, sent, last, emptySince, leftAt,
               leftSeq>>

vars == <<rooms, ws, nextWs, timers, now, sent, last, emptySince, leftAt,
          leftSeq, scope, desktopVars>>

NoSent == [c \in Conns |-> <<>>]

\* ------------------------------------------------------------- helpers
Has(code) == code \in DOMAIN rooms

\* Map.set
MapSet(m, k, v) == [x \in (DOMAIN m) \cup {k} |-> IF x = k THEN v ELSE m[x]]

\* Map.delete
MapDelete(m, k) == [x \in (DOMAIN m) \ {k} |-> m[x]]

ReadyState(c) == ws[c].readyState

IsEmptyRoom(r) == Cardinality(r.displays) = 0 /\ Cardinality(r.controllers) = 0

\* room literal of POST /api/rooms and of the lazy creation in join
\* (createdAt is written there and read nowhere: it is not part of the state;
\* a room without the tvDisplays / activeApp property has hasTvDisplays FALSE
\* and activeApp "null")
NewRoom == [displays |-> {}, controllers |-> {}, tvDisplays |-> {},
            hasTvDisplays |-> FALSE, activeTab |-> "null", activeApp |-> "null"]

\* room literal of GET /tv
NewTvRoom == [NewRoom EXCEPT !.hasTvDisplays = TRUE]

\* a fan-out that falls back to every open socket when the peer set is empty
SendOpenOrAll(out, S, m) ==
  [c \in Conns |-> IF (c \in S \/ S = {}) /\ ReadyState(c) = OPEN
                   THEN Append(out[c], m) ELSE out[c]]

\* a fan-out through a one-frame buffer: each send transmits the message handled
\* before the current one
SendOpenLate(out, S, m) ==
  [c \in Conns |-> IF c \in S /\ ReadyState(c) = OPEN
                   THEN Append(out[c], IF last.msg \in DataMsgs THEN last.msg ELSE m)
                   ELSE out[c]]

\* forEach over a peer set, sending to the sockets whose readyState is OPEN
SendOpen(out, S, m) ==
  [c \in Conns |-> IF c \in S /\ ReadyState(c) = OPEN THEN Append(out[c], m) ELSE out[c]]

\* forEach over room.displays restricted by subtype
SendOpenSub(out, S, sub, m) ==
  [c \in Conns |-> IF c \in S /\ ReadyState(c) = OPEN /\ ws[c].subtype = sub
                   THEN Append(out[c], m) ELSE out[c]]

\* ws.send on the socket whose handler is running
SendTo(out, c, m) == [out EXCEPT ![c] = Append(@, m)]

StatusMsg(room) == [type |-> "status",
                    controllers |-> Cardinality(room.controllers),
                    displays |-> Cardinality(room.displays)]

\* a status broadcast over every socket of the server (wss.clients)
broadcastStatusAll(out, room) == SendOpen(out, Conns, StatusMsg(room))

broadcastStatus(out, room) ==
  SendOpen(SendOpen(out, room.displays, StatusMsg(room)),
           room.controllers, StatusMsg(room))

\* ------------------------------------------------------------ join part
\* room looked up, or lazily created, by a join
JoinRoom(code) == IF Has(code) THEN rooms[code] ELSE NewRoom

\* room.displays.add(ws) / room.controllers.add(ws)
AddPeer(room, c, role) ==
  IF role = "display"
  THEN [room EXCEPT !.displays = @ \cup {c}]
  ELSE [room EXCEPT !.controllers = @ \cup {c}]

\* [...room.displays].some(d => d.subtype === 'tv')
HasTv(room) == \E d \in room.displays : ws[d].subtype = "tv"

\* frames sent by the join block: tvConnected to a joining controller when a
\* tv display is present, the status broadcast, then joined to the joiner
JoinSends(c, code, msg, room) ==
  LET o1 == IF msg.role # "display" /\ HasTv(room)
            THEN SendTo(NoSent, c, [type |-> "tvConnected", roomId |-> code])
            ELSE NoSent
      o2 == broadcastStatus(o1, room)
  IN SendTo(o2, c, [type |-> "joined",
                    controllers |-> Cardinality(room.controllers),
                    displays |-> Cardinality(room.displays)])

\* the block for join with subtype tv: room.tvDisplays.add(ws) when the room
\* has that set
TvJoinRoom(room, c) ==
  IF room.hasTvDisplays THEN [room EXCEPT !.tvDisplays = @ \cup {c}] ELSE room

\* ... and the tvConnected notification of the controllers
TvJoinSends(out, code, room) ==
  SendOpen(out, room.controllers, [type |-> "tvConnected", roomId |-> code])

\* ----------------------------------------------------------- relay part
\* a state effect in which launchApp keeps an app that is already active
RelayRoomKeepApp(room, msg) ==
  CASE msg.type = "launchApp" /\ room.activeApp = "null" ->
         [room EXCEPT !.activeApp = msg.arg]
    [] msg.type = "home" -> [room EXCEPT !.activeApp = "null"]
    [] OTHER -> room

\* room-state effect of a relayed message
RelayRoom(room, msg) ==
  CASE msg.type = "launchApp" -> [room EXCEPT !.activeApp = msg.arg]
    [] msg.type = "home" -> [room EXCEPT !.activeApp = "null"]
    [] OTHER -> room

\* frames sent by the relay blocks for one non-join message
RelaySends(room, msg) ==
  CASE msg.type \in ToDisplayTypes -> SendOpen(NoSent, room.displays, msg)
    [] msg.type = "switchTab" ->
         SendOpen(NoSent, room.displays, [type |-> "switchTab", arg |-> msg.arg])
    [] msg.type = "openTab" ->
         SendOpen(NoSent, room.displays, [type |-> "openTab", arg |-> msg.arg])
    [] msg.type = "getTabs" ->
         SendOpen(NoSent, room.displays, [type |-> "getTabs"])
    [] msg.type = "showKeyboard" ->
         SendOpen(NoSent, room.controllers, [type |-> "showKeyboard"])
    [] msg.type \in ToControllerTypes -> SendOpen(NoSent, room.controllers, msg)
    [] msg.type = "dpad" ->
         SendOpenSub(SendOpenSub(NoSent, room.displays, "tv", msg),
                     room.displays, "none", [type |-> "action", arg |-> msg.arg])
    [] msg.type \in TvTypes -> SendOpenSub(NoSent, room.displays, "tv", msg)
    [] msg.type \in TvStateTypes -> SendOpen(NoSent, room.controllers, msg)
    [] OTHER -> NoSent

\* ---------------------------------------------------------------- ghosts
Event(op, c, code, msg, flag) ==
  [op |-> op, conn |-> c, code |-> code, msg |-> msg, flag |-> flag]

NoMsg == [type |-> "none"]


\* ---------------------------------------------------------------- scopes
\* routing scope: one code, every message type, all inputs at instant 0
RelayScope == [codes |-> {"AAAAAA"}, joins |-> JoinMsgs, data |-> DataMsgs,
               senders |-> Conns, maxConns |-> RelayConns,
               createUntil |-> 0, inputUntil |-> 0, maxTime |-> RelayMaxTime]

\* lifecycle scope: one code, plain joins, inputs spread over the clock, the
\* creation calls at instant 0, frames other than join on the first socket
LifeScope == [codes |-> {"AAAAAA"},
              joins |-> [type : {"join"}, role : Roles, subtype : {"none"}],
              data |-> {[type |-> "action", arg |-> "a1", extra |-> "x"]},
              senders |-> {1}, maxConns |-> MaxConns,
              createUntil |-> 0, inputUntil |-> LifeInputUntil,
              maxTime |-> LifeMaxTime]

\* reaping scope: as the lifecycle scope, with fewer sockets and creation
\* calls at every input instant
FairScope == [LifeScope EXCEPT !.maxConns = FairConns,
                               !.createUntil = LifeInputUntil]

\* single-sender scope: as the routing scope, frames other than join on the
\* first socket only
RouteScope == [RelayScope EXCEPT !.senders = {1}, !.maxConns = RouteConns]

\* two-session scope: both codes, a display-bound, a controller-bound and a
\* state-changing message type, frames other than join on the first socket
TwoScope == [codes |-> Codes, joins |-> JoinMsgs,
             data |-> {m \in DataMsgs :
                         m.type \in {"action", "showKeyboard", "launchApp"}
                           /\ m.arg = "a1"},
             senders |-> {1}, maxConns |-> TwoConns,
             createUntil |-> 0, inputUntil |-> 0, maxTime |-> RelayMaxTime]

InWindow == now <= scope.inputUntil

\* module state of background.js / preload.js / popup.js before connecting
InitClient ==
  [kind |-> "none", phase |-> "off", reconnectAttempts |-> 0, delay |-> 0,
   roomId |-> FALSE, ws |-> FALSE, intentionalClose |-> FALSE, tries |-> 0]

\* module state of main.js at start-up; no command has been handled
InitKbd ==
  [platform |-> "unset", cmds |-> << >>, tasks |-> << >>, events |-> << >>]

InitMouse ==
  [pos |-> <<0, 0>>, tasks |-> << >>, ideal |-> <<0, 0>>, outside |-> FALSE,
   started |-> FALSE]

InitCli ==
  [pendingMoveX |-> 0, pendingMoveY |-> 0, moveTimer |-> FALSE, armed |-> 0,
   window |-> << >>, flushed |-> << >>, calls |-> << >>]

InitMedia == [platform |-> "unset", tasks |-> << >>]

\* no scroll command handled; the backend probe has not run yet
InitScroll ==
  [backend |-> "unset", platform |-> "unset", tasks |-> << >>, calls |-> << >>,
   failedAt |-> << >>, logged |-> {}]

\* the content script before its page is loaded
InitPage ==
  [script |-> "none", host |-> << >>, path |-> << >>,
   currentProfile |-> "universal", detected |-> "none",
   action |-> "none", under |-> "none", ran |-> << >>]

\* module state of main.js: empty history, no device, default settings
\* srv.clock counts the calls of logSession and stands for the instant of
\* each; srv.req and srv.res are the last request handled and its status
InitSrv ==
  [sessionHistory |-> << >>, connectedDevices |-> {}, customShortcuts |-> "default",
   clipboard |-> "empty", files |-> {}, inputs |-> 0, clock |-> 0, regs |-> 0,
   reqs |-> 0, req |-> [path |-> "none", s |-> "none", header |-> "none",
                        body |-> "ok"],
   res |-> 0]

\* module state of background.js when the service worker starts
\* bg.ws is 0 for null or the number of a socket, bg.roomId 0 for null or a
\* room code; bg.socks are the WebSocket objects created so far, bg.calls the
\* calls of connectToServer that reached an await, bg.timers the pending
\* setTimeout(connectToServer), bg.rooms the rooms created on the relay;
\* bg.stored is the roomId in chrome.storage.local, bg.idle whether the last
\* request handled was disconnect, bg.fresh whether newSession was requested
InitBg ==
  [ws |-> 0, roomId |-> 0, reconnectAttempts |-> 0, socks |-> << >>,
   calls |-> << >>, timers |-> 0, rooms |-> 0, stored |-> 0, idle |-> FALSE,
   fresh |-> FALSE, msgs |-> 0]

InitDesktop ==
  /\ client = InitClient
  /\ kbd = InitKbd
  /\ mouse = InitMouse
  /\ cli = InitCli
  /\ media = InitMedia
  /\ scroll = InitScroll
  /\ page = InitPage
  /\ srv = InitSrv
  /\ bg = InitBg

InitState ==
  /\ rooms = << >>
  /\ ws = [c \in Conns |-> [roomId |-> "", role |-> "null", subtype |-> "none",
                            readyState |-> 0]]
  /\ nextWs = 0
  /\ timers = [c \in Conns |-> NoTimer]
  /\ now = 0
  /\ sent = NoSent
  /\ last = Event("init", 0, "", NoMsg, FALSE)
  /\ emptySince = [code \in Codes |-> 0]
  /\ leftAt = [code \in Codes |-> NoTimer]
  /\ leftSeq = [code \in Codes |-> 0]
  /\ InitDesktop

Init == InitState /\ scope = RelayScope

InitLife == InitState /\ scope = LifeScope

InitFair == InitState /\ scope = FairScope

InitRoute == InitState /\ scope = RouteScope

InitTwo == InitState /\ scope = TwoScope

\* ---------------------------------------------------------------- actions
\* POST /api/rooms
CreateRoom(code) ==
  /\ now <= scope.createUntil
  /\ rooms' = MapSet(rooms, code, NewRoom)
  /\ emptySince' = [emptySince EXCEPT ![code] = now]
  /\ sent' = NoSent
  /\ last' = Event("createRoom", 0, code, NoMsg, Has(code))
  /\ UNCHANGED <<ws, nextWs, timers, now, leftAt, leftSeq, scope, desktopVars>>

\* GET /tv
CreateTvRoom(code) ==
  /\ now <= scope.createUntil
  /\ rooms' = MapSet(rooms, code, NewTvRoom)
  /\ emptySince' = [emptySince EXCEPT ![code] = now]
  /\ sent' = NoSent
  /\ last' = Event("createTvRoom", 0, code, NoMsg, Has(code))
  /\ UNCHANGED <<ws, nextWs, timers, now, leftAt, leftSeq, scope, desktopVars>>

\* wss.on('connection')
Connect(code) ==
  /\ InWindow
  /\ nextWs < scope.maxConns
  /\ nextWs' = nextWs + 1
  /\ ws' = [ws EXCEPT ![nextWs + 1] =
              [roomId |-> code, role |-> "null", subtype |-> "none",
               readyState |-> OPEN]]
  /\ sent' = NoSent
  /\ last' = Event("connect", nextWs + 1, code, NoMsg, FALSE)
  /\ UNCHANGED <<rooms, timers, now, emptySince, leftAt, leftSeq, scope, desktopVars>>

\* ws.on('message') for a join
OnJoin(c, msg) ==
  LET code == ws[c].roomId
      room1 == AddPeer(JoinRoom(code), c, msg.role)
      out1 == JoinSends(c, code, msg, room1)
      room2 == IF msg.subtype = "tv" THEN TvJoinRoom(room1, c) ELSE room1
      out2 == IF msg.subtype = "tv" THEN TvJoinSends(out1, code, room2) ELSE out1
  IN /\ InWindow
     /\ ReadyState(c) = OPEN
     /\ rooms' = MapSet(rooms, code, room2)
     /\ ws' = [ws EXCEPT ![c].role = msg.role,
                         ![c].subtype = IF msg.subtype = "tv" THEN "tv" ELSE @]
     /\ sent' = out2
     /\ last' = Event("message", c, code, msg, ~Has(code))
     /\ UNCHANGED <<nextWs, timers, now, emptySince, leftAt, leftSeq, scope, desktopVars>>

\* ws.on('message') for a ping
OnPing(c) ==
  /\ InWindow
  /\ ReadyState(c) = OPEN
  /\ sent' = SendTo(NoSent, c, [type |-> "pong"])
  /\ last' = Event("message", c, ws[c].roomId, [type |-> "ping"], FALSE)
  /\ UNCHANGED <<rooms, ws, nextWs, timers, now, emptySince, leftAt, leftSeq, scope, desktopVars>>

\* a catch block that also terminates the offending socket
CatchTerminate(c) == [ws EXCEPT ![c].readyState = CLOSING]

\* the sockets after the catch block, which only logs
Catch(c) == ws

\* ws.on('message') for data JSON.parse rejects (or whose msg.type throws)
OnMalformed(c) ==
  /\ InWindow
  /\ ReadyState(c) = OPEN
  /\ ws' = Catch(c)
  /\ sent' = NoSent
  /\ last' = Event("message", c, ws[c].roomId, [type |-> "malformed"], FALSE)
  /\ UNCHANGED <<rooms, nextWs, timers, now, emptySince, leftAt, leftSeq, scope, desktopVars>>

\* a lookup that inserts a room for an unknown code, as the join block does
RelayLookupOrCreate(code) == IF Has(code) THEN rooms ELSE MapSet(rooms, code, NewRoom)

\* the registry as the relay part finds it: rooms.get(roomId) inserts nothing
RelayLookup(code) == rooms

\* ws.on('message') for any other message
OnRelay(c, msg) ==
  LET code == ws[c].roomId
  IN /\ InWindow
     /\ ReadyState(c) = OPEN
     /\ IF code \in DOMAIN RelayLookup(code)
        THEN /\ rooms' = [RelayLookup(code) EXCEPT ![code] = RelayRoom(@, msg)]
             /\ sent' = RelaySends(RelayRoom(RelayLookup(code)[code], msg), msg)
        ELSE /\ rooms' = RelayLookup(code)
             /\ sent' = NoSent
     /\ last' = Event("message", c, code, msg, Has(code))
     /\ UNCHANGED <<ws, nextWs, timers, now, emptySince, leftAt, leftSeq, scope, desktopVars>>

\* the transport of a socket goes down; its close event is now pending
SocketClose(c) ==
  /\ InWindow
  /\ ReadyState(c) = OPEN
  /\ ws' = [ws EXCEPT ![c].readyState = CLOSING]
  /\ sent' = NoSent
  /\ last' = Event("socketClose", c, ws[c].roomId, NoMsg, FALSE)
  /\ UNCHANGED <<rooms, nextWs, timers, now, emptySince, leftAt, leftSeq, scope, desktopVars>>

\* room.displays.delete(ws) / room.controllers.delete(ws)
RemovePeer(room, c) ==
  IF ws[c].role = "display"
  THEN [room EXCEPT !.displays = @ \ {c}]
  ELSE [room EXCEPT !.controllers = @ \ {c}]

\* the fire time of the timer the close handler arms, NoTimer when it arms none
ReapArm(room) == IF IsEmptyRoom(room) THEN now + GRACE ELSE NoTimer

\* ws.on('close')
OnClose(c) ==
  LET code == ws[c].roomId
      room1 == RemovePeer(rooms[code], c)
      member == c \in rooms[code].displays \cup rooms[code].controllers
  IN /\ InWindow
     /\ ReadyState(c) = CLOSING
     /\ ws' = [ws EXCEPT ![c].readyState = CLOSED]
     /\ IF Has(code)
        THEN /\ rooms' = [rooms EXCEPT ![code] = room1]
             /\ sent' = broadcastStatus(NoSent, room1)
             /\ timers' = [timers EXCEPT ![c] = ReapArm(room1)]
             /\ emptySince' = IF IsEmptyRoom(room1) /\ ~IsEmptyRoom(rooms[code])
                              THEN [emptySince EXCEPT ![code] = now] ELSE emptySince
             /\ leftAt' = IF member THEN [leftAt EXCEPT ![code] = now] ELSE leftAt
             /\ leftSeq' = IF member THEN [leftSeq EXCEPT ![code] = nextWs]
                           ELSE leftSeq
        ELSE UNCHANGED <<rooms, timers, emptySince, leftAt, leftSeq>> /\ sent' = NoSent
     /\ last' = Event("close", c, code, NoMsg, Has(code))
     /\ UNCHANGED <<nextWs, now, scope, desktopVars>>

\* the test of the timer callback: the room is still there and has no peer
ReapTest(code) == Has(code) /\ IsEmptyRoom(rooms[code])

\* callback of the setTimeout armed by the close handler of socket c
ReapTimer(c) ==
  LET code == ws[c].roomId
  IN /\ timers[c] # NoTimer
     /\ now >= timers[c]
     /\ timers' = [timers EXCEPT ![c] = NoTimer]
     /\ rooms' = IF ReapTest(code) THEN MapDelete(rooms, code) ELSE rooms
     /\ sent' = NoSent
     /\ last' = Event("timer", c, code, NoMsg, ReapTest(code))
     /\ UNCHANGED <<ws, nextWs, now, emptySince, leftAt, leftSeq, scope, desktopVars>>

\* the clock advances; every pending close event is handled before the last
\* instant at which inputs arrive has passed
Tick ==
  /\ now + TickStep <= scope.maxTime
  /\ now + TickStep > scope.inputUntil => \A c \in Conns : ReadyState(c) # CLOSING
  /\ now' = now + TickStep
  /\ sent' = NoSent
  /\ last' = Event("tick", 0, "", NoMsg, FALSE)
  /\ UNCHANGED <<rooms, ws, nextWs, timers, emptySince, leftAt, leftSeq, scope, desktopVars>>

Next ==
  \/ \E code \in scope.codes : CreateRoom(code)
  \/ \E code \in scope.codes : CreateTvRoom(code)
  \/ \E code \in scope.codes : Connect(code)
  \/ \E c \in Conns, msg \in scope.joins : OnJoin(c, msg)
  \/ \E c \in scope.senders : OnPing(c)
  \/ \E c \in scope.senders : OnMalformed(c)
  \/ \E c \in scope.senders, msg \in scope.data : OnRelay(c, msg)
  \/ \E c \in Conns : SocketClose(c)
  \/ \E c \in Conns : OnClose(c)
  \/ \E c \in Conns : ReapTimer(c)
  \/ Tick

Spec == Init /\ [][Next]_vars

SpecLife == InitLife /\ [][Next]_vars

SpecRoute == InitRoute /\ [][Next]_vars

SpecTwo == InitTwo /\ [][Next]_vars

\* The event loop runs every pending callback: the clock advances, a timer
\* whose delay has elapsed fires, a pending close event is handled.  Nothing
\* obliges a client to connect, send or close.
Fairness ==
  /\ WF_vars(Tick)
  /\ \A c \in Conns : WF_vars(ReapTimer(c))
  /\ \A c \in Conns : WF_vars(OnClose(c))

FairSpec == InitFair /\ [][Next]_vars /\ Fairness

TypeOK ==
  /\ DOMAIN rooms \subseteq Codes
  /\ nextWs \in 0..MaxConns
  /\ now \in 0..LifeMaxTime

\* ================================================================ claims
IsJoin == last.op = "message" /\ last.msg.type = "join"

IsData == last.op = "message" /\ last.msg \in DataMsgs

Peers(code) == rooms[code].displays \cup rooms[code].controllers

\* C1: a session is removed no sooner than the grace window after the moment
\* its controller and display sets most recently became both empty.
C1_ReapNoSoonerThanGrace ==
  (last.op = "timer" /\ last.flag) => now >= emptySince[last.code] + GRACE

\* C2: no session with a connection in its controller or display set is
\* removed from the registry or replaced in it.
C2_LiveSessionKept ==
  [][\A code \in DOMAIN rooms :
       Peers(code) # {} =>
         /\ code \in DOMAIN rooms'
         /\ ~(last'.op \in {"createRoom", "createTvRoom"} /\ last'.code = code)]_vars

\* C3: a session whose controller and display sets are both empty and stay
\* empty is eventually removed from the registry, however it became empty.
C3_EmptySessionReaped ==
  \A code \in Codes : ~<>[](Has(code) /\ IsEmptyRoom(rooms[code]))

\* C4: an action message sent by a joined controller is forwarded exactly once
\* to every open display of the session and not at all to its controllers.
C4_ActionFanOut ==
  (/\ IsData
   /\ last.msg.type = "action"
   /\ last.flag
   /\ ws[last.conn].role = "controller"
   /\ last.conn \in rooms[last.code].controllers)
  => /\ \A d \in rooms[last.code].displays :
          ReadyState(d) = OPEN => sent[d] = <<last.msg>>
     /\ \A c \in rooms[last.code].controllers : sent[c] = << >>

\* C5: a relayed message from a controller is never delivered to another
\* controller of the session, and a display-bound message type is relayed
\* only when a controller sent it.
C5_SenderAuthorized ==
  (IsData /\ last.flag)
  => /\ ws[last.conn].role = "controller" =>
          \A c \in rooms[last.code].controllers \ {last.conn} : sent[c] = << >>
     /\ (last.msg.type \in ToDisplayTypes /\ \E d \in Conns : sent[d] # << >>)
          => ws[last.conn].role = "controller"

\* C6: each connection is in at most one of the controller and display sets
\* of its own session and in no set of another session.
C6_OneRoleOneSession ==
  \A code \in DOMAIN rooms :
    /\ rooms[code].displays \cap rooms[code].controllers = {}
    /\ \A c \in Peers(code) \cup rooms[code].tvDisplays : ws[c].roomId = code

\* C7: right after a connection's close event is handled the connection is in
\* no peer set (controllers, displays, tvDisplays) of any session.
C7_ClosedIsGone ==
  last.op = "close" =>
    \A code \in DOMAIN rooms :
      last.conn \notin Peers(code) \cup rooms[code].tvDisplays

\* C8: a session-creation call returns a code no session in the registry has.
C8_FreshCode ==
  last.op \in {"createRoom", "createTvRoom"} => ~last.flag

\* C9: a peer that joins again, on a socket accepted after its disconnect,
\* with the same code and within the grace window of the disconnect joins the
\* existing session, never a freshly created one.
C9_RejoinSameRoom ==
  (/\ IsJoin
   /\ leftAt[last.code] # NoTimer
   /\ last.conn > leftSeq[last.code]
   /\ now - leftAt[last.code] < GRACE)
    => ~last.flag

\* C10: a join to a code that is not in the registry creates a session holding
\* exactly the joiner in the set of its role and nobody in the other set, and
\* only a join (or a creation call) ever adds a session to the registry.
C10_JoinCreates ==
  /\ [](IsJoin /\ last.flag =>
          /\ Has(last.code)
          /\ rooms[last.code].displays =
               (IF last.msg.role = "display" THEN {last.conn} ELSE {})
          /\ rooms[last.code].controllers =
               (IF last.msg.role = "display" THEN {} ELSE {last.conn}))
  /\ [][\A code \in Codes :
          (code \notin DOMAIN rooms /\ code \in DOMAIN rooms')
            => \/ last'.op \in {"createRoom", "createTvRoom"}
               \/ last'.op = "message" /\ last'.msg.type = "join"]_vars

C10_Witness ==
  /\ IsJoin
  /\ last.flag
  /\ last.msg.role = "display"
  /\ rooms[last.code].displays = {last.conn}
  /\ rooms[last.code].controllers = {}

\* number of frames of one type in a sequence of frames
CountType(seq, t) == Cardinality({i \in DOMAIN seq : seq[i].type = t})

OpenDisplays(code) == {c \in rooms[code].displays : ReadyState(c) = OPEN}

OpenControllers(code) == {c \in rooms[code].controllers : ReadyState(c) = OPEN}

\* C11: a relayable message from a connection that has not sent join is
\* delivered to no peer and changes no session state.
C11_UnjoinedIgnored ==
  [][(/\ last'.op = "message"
      /\ last'.msg \in DataMsgs
      /\ ws[last'.conn].role = "null")
       => (sent' = NoSent /\ rooms' = rooms)]_vars

\* C12: after every join and every handled close each open connection in the
\* session's two sets is sent one status frame carrying the sizes of the sets
\* after the event, and the joiner also a joined frame with the same counts.
C12_StatusAfterJoinClose ==
  ((IsJoin \/ (last.op = "close" /\ last.flag)) /\ Has(last.code))
  => /\ \A c \in OpenDisplays(last.code) \cup OpenControllers(last.code) :
          /\ CountType(sent[c], "status") = 1
          /\ \E i \in DOMAIN sent[c] : sent[c][i] = StatusMsg(rooms[last.code])
     /\ IsJoin =>
          \E i \in DOMAIN sent[last.conn] :
            sent[last.conn][i] =
              [type |-> "joined",
               controllers |-> Cardinality(rooms[last.code].controllers),
               displays |-> Cardinality(rooms[last.code].displays)]

\* C13: a message other than join and ping on a connection whose code is not
\* in the registry delivers nothing, creates no session and leaves the
\* registry unchanged.
C13_UnknownCodeNoOp ==
  [][(/\ last'.op = "message"
      /\ last'.msg \in DataMsgs
      /\ ws[last'.conn].roomId \notin DOMAIN rooms)
       => (sent' = NoSent /\ rooms' = rooms /\ last'.code \notin DOMAIN rooms')]_vars

C13_Witness ==
  /\ IsData
  /\ last.msg.type = "action"
  /\ ~last.flag
  /\ ~Has(last.code)
  /\ sent = NoSent

C15_DpadRouting ==
  (IsData /\ last.flag /\ last.msg.type = "dpad")
  => \A c \in Conns :
       /\ (c \in OpenDisplays(last.code) /\ ws[c].subtype = "tv")
            => sent[c] = <<last.msg>>
       /\ (c \in OpenDisplays(last.code) /\ ws[c].subtype = "none")
            => sent[c] = <<[type |-> "action", arg |-> last.msg.arg]>>
       /\ c \in rooms[last.code].controllers => sent[c] = << >>

\* C16: after a switchTab the session's activeTab is the message's tabId, and
\* after a setProfile its activeProfile is the message's profile.
C16_TabAndProfileState ==
  (IsData /\ last.flag)
  => /\ last.msg.type = "switchTab" => rooms[last.code].activeTab = last.msg.arg
     /\ last.msg.type = "setProfile" =>
          /\ "activeProfile" \in DOMAIN rooms[last.code]
          /\ rooms[last.code].activeProfile = last.msg.arg

\* C17: after launchApp the session's activeApp is the appId, after home it is
\* null, whatever it was before, and the message goes to the open tv displays
\* and to nobody else.
C17_ActiveApp ==
  (IsData /\ last.flag /\ last.msg.type \in {"launchApp", "home"})
  => /\ rooms[last.code].activeApp =
          (IF last.msg.type = "launchApp" THEN last.msg.arg ELSE "null")
     /\ \A c \in Conns :
          sent[c] = IF c \in OpenDisplays(last.code) /\ ws[c].subtype = "tv"
                    THEN <<last.msg>> ELSE << >>

C17_Witness ==
  /\ IsData
  /\ last.flag
  /\ last.msg.type = "launchApp"
  /\ last.msg.arg = "a2"
  /\ rooms[last.code].activeApp = "a2"
  /\ \E c \in Conns : sent[c] = <<last.msg>>

\* C18: action, mouse, keyboard, scroll, gesture and motion messages are
\* forwarded verbatim to all open displays, and showKeyboard, activeTab and
\* tabList messages to all open controllers.
C18_PureFanOut ==
  (IsData /\ last.flag)
  => /\ last.msg.type \in {"action", "mouse", "keyboard", "scroll", "gesture", "motion"}
          => \A d \in OpenDisplays(last.code) : sent[d] = <<last.msg>>
     /\ last.msg.type \in {"showKeyboard", "activeTab", "tabList"}
          => \A c \in OpenControllers(last.code) :
               Len(sent[c]) = 1 /\ sent[c][1].type = last.msg.type

DisplayBound == ToDisplayTypes \cup TvTypes \cup {"switchTab", "openTab", "getTabs", "dpad"}

ControllerBound == ToControllerTypes \cup TvStateTypes \cup {"showKeyboard"}

\* C19: a relayed message handled while the session has no peer of the target
\* role is delivered to nobody, and a join delivers only the frames of the
\* join itself, never an earlier message.
C19_NoQueuedDelivery ==
  /\ (/\ IsData
      /\ last.flag
      /\ \/ last.msg.type \in DisplayBound /\ rooms[last.code].displays = {}
         \/ last.msg.type \in ControllerBound /\ rooms[last.code].controllers = {})
       => sent = NoSent
  /\ IsJoin =>
       \A c \in Conns : \A i \in DOMAIN sent[c] :
         sent[c][i].type \in {"status", "joined", "tvConnected"}

C19_Witness ==
  /\ IsData
  /\ last.flag
  /\ last.msg.type = "action"
  /\ rooms[last.code].displays = {}
  /\ OpenControllers(last.code) # {}
  /\ sent = NoSent

\* C20: a message, join or close on a connection of one session leaves every
\* other session as it was and delivers nothing to the other sessions'
\* connections.
C20_NoCrossSession ==
  [][\A B \in Codes :
       (last'.op \in {"message", "close"} /\ last'.code # B)
         => /\ (B \in DOMAIN rooms) = (B \in DOMAIN rooms')
            /\ B \in DOMAIN rooms => rooms'[B] = rooms[B]
            /\ \A c \in Conns : ws[c].roomId = B => sent'[c] = << >>]_vars

C20_Witness ==
  /\ last.op \in {"message", "close"}
  /\ \E c \in Conns : sent[c] # << >>
  /\ \E B \in Codes \ {last.code} : Has(B) /\ Peers(B) # {}

\* ------------------------------------------------- a send that throws
\* The handlers when ws.send of one open target throws. A Set iterates in
\* insertion order; OnJoinInOrder admits a socket to a set only behind the
\* sockets already in it, so that insertion order is the order of the ids.
ThrowScope == [RouteScope EXCEPT !.data = {m \in DataMsgs : m.type \in ToDisplayTypes}]

InitThrow == InitState /\ scope = ThrowScope

Running == last.op # "crash"

OnJoinInOrder(c, msg) ==
  /\ \A code \in DOMAIN rooms :
       /\ msg.role = "display" => \A d \in rooms[code].displays : d <= c
       /\ msg.role = "controller" => \A d \in rooms[code].controllers : d <= c
  /\ OnJoin(c, msg)

\* room.displays.forEach(d => ...) of the display fan-out when d.send throws at
\* target t: the targets before t have the frame, the rest of the forEach is
\* skipped and the catch block of the handler logs the error
OnRelayThrow(c, msg, t) ==
  LET code == ws[c].roomId
  IN /\ InWindow
     /\ ReadyState(c) = OPEN
     /\ Has(code)
     /\ msg.type \in ToDisplayTypes
     /\ t \in rooms[code].displays
     /\ ReadyState(t) = OPEN
     /\ sent' = SendOpen(NoSent, {d \in rooms[code].displays : d < t}, msg)
     /\ last' = Event("sendThrow", t, code, msg, TRUE)
     /\ UNCHANGED <<rooms, ws, nextWs, timers, now, emptySince, leftAt, leftSeq, scope, desktopVars>>

\* ws.on('close') when a send of broadcastStatus throws at target t: the peer
\* is removed, the targets before t have the status, no timer is armed, and
\* the exception leaves the listener uncaught, which ends the process
OnCloseThrow(c, t) ==
  LET code == ws[c].roomId
      room1 == RemovePeer(rooms[code], c)
      first == IF t \in room1.displays
               THEN SendOpen(NoSent, {d \in room1.displays : d < t}, StatusMsg(room1))
               ELSE SendOpen(SendOpen(NoSent, room1.displays, StatusMsg(room1)),
                             {d \in room1.controllers : d < t}, StatusMsg(room1))
  IN /\ InWindow
     /\ ReadyState(c) = CLOSING
     /\ Has(code)
     /\ t \in room1.displays \cup room1.controllers
     /\ ReadyState(t) = OPEN
     /\ ws' = [ws EXCEPT ![c].readyState = CLOSED]
     /\ rooms' = [rooms EXCEPT ![code] = room1]
     /\ sent' = first
     /\ last' = Event("crash", t, code, NoMsg, TRUE)
     /\ UNCHANGED <<nextWs, timers, now, emptySince, leftAt, leftSeq, scope, desktopVars>>

NextThrow ==
  \/ \E code \in scope.codes : Running /\ CreateRoom(code)
  \/ \E code \in scope.codes : Running /\ CreateTvRoom(code)
  \/ \E code \in scope.codes : Running /\ Connect(code)
  \/ \E c \in Conns, msg \in scope.joins : Running /\ OnJoinInOrder(c, msg)
  \/ \E c \in scope.senders : Running /\ OnPing(c)
  \/ \E c \in scope.senders : Running /\ OnMalformed(c)
  \/ \E c \in scope.senders, msg \in scope.data : Running /\ OnRelay(c, msg)
  \/ \E c \in scope.senders, msg \in scope.data, t \in Conns :
       Running /\ OnRelayThrow(c, msg, t)
  \/ \E c \in Conns : Running /\ SocketClose(c)
  \/ \E c \in Conns : Running /\ OnClose(c)
  \/ \E c, t \in Conns : Running /\ OnCloseThrow(c, t)
  \/ \E c \in Conns : Running /\ ReapTimer(c)
  \/ Running /\ Tick

SpecThrow == InitThrow /\ [][NextThrow]_vars

\* a frame that the handling of msg sends: the message itself, its rebuilt
\* copy, or the action a dpad is re-encoded as
Derived(frame, msg) ==
  \/ frame.type = msg.type
  \/ msg.type = "dpad" /\ frame.type = "action" /\ frame.arg = msg.arg

\* the open sockets a message of one type is sent to
Targets(code, type) ==
  CASE type \in TvTypes -> {d \in OpenDisplays(code) : ws[d].subtype = "tv"}
    [] type = "dpad" -> {d \in OpenDisplays(code) : ws[d].subtype \in {"tv", "none"}}
    [] type \in DisplayBound -> OpenDisplays(code)
    [] type \in ControllerBound -> OpenControllers(code)
    [] OTHER -> {}

\* C21: when a message m2 is handled right after a message m1 of the same
\* session, every open target of m1 has already been sent m1, and the handling
\* of m2 sends frames of m2 only, so no peer is sent m1 after m2.
C21_ArrivalOrder ==
  [][(/\ IsData
      /\ last.flag
      /\ last'.op = "message"
      /\ last'.msg \in DataMsgs
      /\ last'.code = last.code)
       => /\ \A c \in Targets(last.code, last.msg.type) :
               Len(sent[c]) >= 1 /\ Derived(sent[c][1], last.msg)
          /\ \A c \in Conns : \A i \in DOMAIN sent'[c] :
               Derived(sent'[c][i], last'.msg)]_vars

C21_Witness ==
  /\ IsData
  /\ last.flag
  /\ last.msg.type = "mouse"
  /\ Cardinality(Targets(last.code, "mouse")) = 2
  /\ \A c \in Targets(last.code, "mouse") : sent[c] = <<last.msg>>

\* C22: when the send to one peer throws during a fan-out or a status
\* broadcast, every other open target still receives the frame, and the relay
\* keeps running; a closed peer in the set costs the open ones nothing.
C22_PeerFailureIsolated ==
  /\ last.op = "sendThrow" =>
       \A d \in OpenDisplays(last.code) \ {last.conn} : sent[d] = <<last.msg>>
  /\ Running
  /\ (IsData /\ last.flag /\ last.msg.type \in ToDisplayTypes) =>
       \A d \in OpenDisplays(last.code) : sent[d] = <<last.msg>>

\* C24: a ping is answered with one pong to its sender only and changes no
\* session, and a socket leaves the peer sets of its session only in the
\* handling of its own close event.
C24_PingPongNoEviction ==
  [][/\ (last'.op = "message" /\ last'.msg.type = "ping")
          => /\ rooms' = rooms
             /\ sent' = [c \in Conns |-> IF c = last'.conn
                                         THEN <<[type |-> "pong"]>> ELSE << >>]
     /\ \A code \in DOMAIN rooms : \A c \in Peers(code) :
          (\/ code \notin DOMAIN rooms'
           \/ c \notin rooms'[code].displays \cup rooms'[code].controllers)
            => (last'.op = "close" /\ last'.conn = c)]_vars

\* ------------------------------------------------ client reconnect machine
\* The display clients: the extension's service worker (background.js), the
\* desktop renderer (preload.js) and the extension's page script (popup.js).
\* phase: off, calling (the connect function is about to run), connecting (a
\* WebSocket exists and is not open yet), open, waiting (a retry timer is
\* pending, delay ms), stopped (no socket and no timer).
\* tries counts the retries scheduled since the last successful open.
Kinds == {"background", "preload", "popup"}

MAX_RECONNECT_ATTEMPTS == 10

MaxTries == 12

Min2(a, b) == IF a <= b THEN a ELSE b

\* the cap inside Math.min(1000 * reconnectAttempts, ...)
Ceiling(kind) == IF kind = "preload" THEN 5000 ELSE 10000

\* delay of the retry the catch block of background.js schedules
CatchDelay == 3000

\* delay of the retry the close handler of popup.js schedules
PopupDelay == 3000

\* connect() / connectToServer() is called for the first time
ClientStart(kind) ==
  /\ client.phase = "off"
  /\ client' = [client EXCEPT !.kind = kind, !.phase = "calling"]
  /\ UNCHANGED <<relayVars, scope, kbd, mouse, cli, media, lateVars>>

\* the body of the connect function up to `new WebSocket(...)` succeeds;
\* background.js has created its room if it had none, and popup.js, finding
\* the variable ws still set to the socket of the last attempt, has marked the
\* next close as intentional
ClientConnect ==
  /\ client.phase = "calling"
  /\ client' = [client EXCEPT
                  !.phase = "connecting",
                  !.roomId = IF client.kind = "background" THEN TRUE ELSE @,
                  !.intentionalClose = IF client.kind = "popup" /\ client.ws
                                       THEN TRUE ELSE @,
                  !.ws = TRUE]
  /\ UNCHANGED <<relayVars, scope, kbd, mouse, cli, media, lateVars>>

\* the body of the connect function throws (the fetch of the room creation is
\* rejected, or the WebSocket constructor throws): background.js retries after
\* a fixed delay without counting, popup.js only logs, preload.js has no catch
ClientCatch ==
  /\ client.phase = "calling"
  /\ client.kind \in {"background", "popup"}
  /\ client.kind = "background" => client.tries < MaxTries
  /\ client' = IF client.kind = "background"
               THEN [client EXCEPT !.phase = "waiting", !.delay = CatchDelay,
                                   !.tries = @ + 1]
               ELSE [client EXCEPT !.phase = "stopped",
                                   !.intentionalClose = IF client.ws THEN TRUE ELSE @]
  /\ UNCHANGED <<relayVars, scope, kbd, mouse, cli, media, lateVars>>

\* ws.onopen
ClientOnOpen ==
  /\ client.phase = "connecting"
  /\ client' = [client EXCEPT !.phase = "open",
                              !.reconnectAttempts = IF client.kind = "popup" THEN @ ELSE 0,
                              !.tries = 0]
  /\ UNCHANGED <<relayVars, scope, kbd, mouse, cli, media, lateVars>>

\* ws.onclose of the current socket, closed by the transport
ClientOnClose ==
  /\ client.phase \in {"connecting", "open"}
  /\ client' =
       IF client.kind = "popup"
       THEN IF ~client.intentionalClose
            THEN [client EXCEPT !.phase = "waiting", !.delay = PopupDelay,
                                !.tries = @ + 1]
            ELSE [client EXCEPT !.phase = "stopped", !.intentionalClose = FALSE]
       ELSE IF client.reconnectAttempts < MAX_RECONNECT_ATTEMPTS
            THEN [client EXCEPT
                    !.reconnectAttempts = @ + 1,
                    !.delay = Min2(1000 * (client.reconnectAttempts + 1),
                                   Ceiling(client.kind)),
                    !.phase = "waiting",
                    !.tries = @ + 1,
                    !.ws = FALSE]
            ELSE [client EXCEPT !.phase = "stopped", !.ws = FALSE]
  /\ UNCHANGED <<relayVars, scope, kbd, mouse, cli, media, lateVars>>

\* the retry timer fires and calls the connect function
ClientRetry ==
  /\ client.phase = "waiting"
  /\ client' = [client EXCEPT !.phase = "calling"]
  /\ UNCHANGED <<relayVars, scope, kbd, mouse, cli, media, lateVars>>

NextClient ==
  \/ \E kind \in Kinds : ClientStart(kind)
  \/ ClientConnect
  \/ ClientCatch
  \/ ClientOnOpen
  \/ ClientOnClose
  \/ ClientRetry

SpecClient == Init /\ [][NextClient]_vars

\* C23: a pending retry waits min(1000 * attempt, ceiling) ms, where attempt
\* numbers the retries since the last successful open, and no more than
\* MAX_RECONNECT_ATTEMPTS retries are made without a successful open.
C23_BackoffCapped ==
  /\ client.phase = "waiting" =>
       \E ceiling \in {PopupDelay, Ceiling("preload"), Ceiling("background")} :
         client.delay = Min2(1000 * client.tries, ceiling)
  /\ client.tries <= MAX_RECONNECT_ATTEMPTS

\* ------------------------------------------ desktop app: key commands
\* simulateKey and simulateKeystroke with the nut-js keyboard. A command is
\* dispatched by handleCommand and returns at once; its key events are emitted
\* one per awaited call of pressKey / releaseKey, so the events of commands in
\* flight interleave at the awaits.
\* kbd.cmds[i] is the i-th command, kbd.tasks[i] the calls it has not made
\* yet, kbd.events the key events emitted so far, in order.
MaxKeyCmds == 2

KeyNames == {"up", "s", "zz"}

Shortcuts == {<<"cmd", "shift", "s">>, <<"mod", "shift", "s">>, <<"shift", "zz">>}

\* nutKeyMap of simulateKey (arrows, enter, function keys; no letters)
nutKeyMap == [up |-> "Up", enter |-> "Enter"]

\* nutKeyMap of simulateKeystroke (the above and letters, punctuation)
nutKeyMapStroke == [up |-> "Up", enter |-> "Enter", s |-> "S"]

Lookup(map, name) == IF name \in DOMAIN map THEN map[name] ELSE "undefined"

\* nutModMap[m], undefined for a name it does not hold
nutModMap(isMac, m) ==
  CASE m = "command" -> IF isMac THEN "LeftSuper" ELSE "LeftControl"
    [] m = "control" -> "LeftControl"
    [] m = "option" -> "LeftAlt"
    [] m = "shift" -> "LeftShift"
    [] OTHER -> "undefined"

\* the modifier names parseShortcut returns for the parts before the last one
ModifierName(m) ==
  CASE m \in {"cmd", "command"} -> "command"
    [] m \in {"ctrl", "control"} -> "control"
    [] m \in {"alt", "option"} -> "option"
    [] m = "shift" -> "shift"
    [] OTHER -> m

\* parseShortcut applied to the parts of shortcut.toLowerCase().split('+')
parseShortcut(parts) ==
  [key |-> parts[Len(parts)],
   modifiers |-> [i \in 1..(Len(parts) - 1) |-> ModifierName(parts[i])]]

Reverse(seq) == [i \in 1..Len(seq) |-> seq[Len(seq) + 1 - i]]

KeyOp(op, key, base) == [op |-> op, key |-> key, base |-> base]

\* modifiers.map(m => nutModMap[m]).filter(Boolean)
nutMods(isMac, modifiers) ==
  SelectSeq([i \in 1..Len(modifiers) |-> nutModMap(isMac, modifiers[i])],
            LAMBDA k : k # "undefined")

\* the calls simulateKey(key) makes: pressKey, then releaseKey
KeyCalls(key) ==
  IF Lookup(nutKeyMap, key) # "undefined"
  THEN <<KeyOp("press", Lookup(nutKeyMap, key), TRUE),
         KeyOp("release", Lookup(nutKeyMap, key), TRUE)>>
  ELSE << >>

\* the calls simulateKeystroke(char, modifiers) makes, in order
KeystrokeCalls(isMac, char, modifiers) ==
  LET mods == nutMods(isMac, modifiers)
      nutKey == Lookup(nutKeyMapStroke, char)
  IN [i \in 1..Len(mods) |-> KeyOp("press", mods[i], FALSE)]
     \o (IF nutKey # "undefined"
         THEN <<KeyOp("press", nutKey, TRUE), KeyOp("release", nutKey, TRUE)>>
         ELSE << >>)
     \o [i \in 1..Len(mods) |-> KeyOp("release", Reverse(mods)[i], FALSE)]

\* process.platform is read when main.js is loaded
KbdBoot(platform) ==
  /\ kbd.platform = "unset"
  /\ kbd' = [kbd EXCEPT !.platform = platform]
  /\ UNCHANGED <<relayVars, scope, client, mouse, cli, media, lateVars>>

\* handleCommand: case 'key' / 'dpad' / 'action'
simulateKey(key) ==
  /\ kbd.platform # "unset"
  /\ Len(kbd.cmds) < MaxKeyCmds
  /\ kbd' = [kbd EXCEPT !.cmds = Append(@, [fn |-> "simulateKey", key |-> key,
                                            parts |-> <<key>>]),
                        !.tasks = Append(@, KeyCalls(key))]
  /\ UNCHANGED <<relayVars, scope, client, mouse, cli, media, lateVars>>

\* handleCommand: case 'shortcut' -> executeShortcut(msg.shortcut)
executeShortcut(parts) ==
  LET p == parseShortcut(parts)
  IN /\ kbd.platform # "unset"
     /\ Len(kbd.cmds) < MaxKeyCmds
     /\ kbd' = [kbd EXCEPT
                  !.cmds = Append(@, [fn |-> "simulateKeystroke", key |-> p.key,
                                      parts |-> parts]),
                  !.tasks = Append(@, KeystrokeCalls(kbd.platform = "darwin",
                                                     p.key, p.modifiers))]
     /\ UNCHANGED <<relayVars, scope, client, mouse, cli, media, lateVars>>

\* the next awaited pressKey / releaseKey of command i emits its key event
KeyEvent(i) ==
  /\ kbd.tasks[i] # << >>
  /\ kbd' = [kbd EXCEPT
               !.events = Append(@, [op |-> Head(kbd.tasks[i]).op,
                                     key |-> Head(kbd.tasks[i]).key,
                                     base |-> Head(kbd.tasks[i]).base,
                                     cmd |-> i]),
               !.tasks[i] = Tail(@)]
  /\ UNCHANGED <<relayVars, scope, client, mouse, cli, media, lateVars>>

NextKbd ==
  \/ \E platform \in {"darwin", "win32"} : KbdBoot(platform)
  \/ \E key \in KeyNames : simulateKey(key)
  \/ \E parts \in Shortcuts : executeShortcut(parts)
  \/ \E i \in 1..MaxKeyCmds : i <= Len(kbd.tasks) /\ KeyEvent(i)

SpecKbd == Init /\ [][NextKbd]_vars

\* the key name of a command is in the key map of the function it reaches
Recognized(cmd) ==
  IF cmd.fn = "simulateKey" THEN cmd.key \in DOMAIN nutKeyMap
  ELSE cmd.key \in DOMAIN nutKeyMapStroke

EventsOf(i) == SelectSeq(kbd.events, LAMBDA e : e.cmd = i)

\* C25: the press of a base key is followed at once by the release of the
\* same key, with no other key event in between, and a command whose key name
\* is not recognized emits no key event, neither base key nor modifier.
C25_PressThenRelease ==
  /\ \A i \in DOMAIN kbd.events :
       (kbd.events[i].op = "press" /\ kbd.events[i].base /\ i < Len(kbd.events))
         => kbd.events[i + 1] = [kbd.events[i] EXCEPT !.op = "release"]
  /\ \A i \in DOMAIN kbd.events : Recognized(kbd.cmds[kbd.events[i].cmd])

\* C26: on a mac the shortcut mod+shift+s emits press(Cmd), press(Shift),
\* press(S), release(S), release(Shift), release(Cmd), in this order.
C26_ModShiftS ==
  \A i \in DOMAIN kbd.cmds :
    (/\ kbd.platform = "darwin"
     /\ kbd.cmds[i].parts = <<"mod", "shift", "s">>
     /\ kbd.tasks[i] = << >>)
      => [j \in DOMAIN EventsOf(i) |-> <<EventsOf(i)[j].op, EventsOf(i)[j].key>>]
           = << <<"press", "LeftSuper">>, <<"press", "LeftShift">>,
                <<"press", "S">>, <<"release", "S">>,
                <<"release", "LeftShift">>, <<"release", "LeftSuper">> >>

\* --------------------------- desktop app: mouse moves, native backend
\* simulateMouse with nutMouse. Each move is an async function that awaits
\* getPosition and then setPosition; handleCommand starts it and returns.
\* Coordinates of a message are in quarters of a pixel unit (x = xq / 4).
\* mouse.pos is the cursor of the OS, mouse.tasks[i] the i-th move with its
\* place (get, set, done), mouse.ideal the start position plus the scaled
\* deltas of all moves dispatched, mouse.outside whether setPosition was ever
\* called with a point outside the screen.
MaxMoves == 2

ScreenW == 5

ScreenH == 3

Screen == (0..(ScreenW - 1)) \X (0..(ScreenH - 1))

MoveXs == {0 - 4, 3}

MoveYs == {0, 2}

\* Math.round(x * 2) for x = q / 4: the nearest integer to q / 2, halves up
Round2(q) == (q + 1) \div 2

Max2(a, b) == IF a >= b THEN a ELSE b

\* the point the OS leaves the cursor at when asked for p
OsClamp(p) ==
  <<Max2(0, Min2(ScreenW - 1, p[1])), Max2(0, Min2(ScreenH - 1, p[2]))>>

\* the cursor is somewhere on the screen when the app starts
CursorAt(p) ==
  /\ ~mouse.started
  /\ mouse' = [mouse EXCEPT !.started = TRUE, !.pos = p, !.ideal = p]
  /\ UNCHANGED <<relayVars, scope, client, kbd, cli, media, lateVars>>

\* handleCommand: case 'mouse' -> simulateMouse(x, y, 'move'); the async
\* function is started and is now waiting for getPosition
simulateMouse(xq, yq) ==
  /\ mouse.started
  /\ Len(mouse.tasks) < MaxMoves
  /\ mouse' = [mouse EXCEPT
                 !.tasks = Append(@, [pc |-> "get", dx |-> Round2(xq),
                                      dy |-> Round2(yq), pos |-> <<0, 0>>]),
                 !.ideal = <<@[1] + Round2(xq), @[2] + Round2(yq)>>]
  /\ UNCHANGED <<relayVars, scope, client, kbd, cli, media, lateVars>>

\* const pos = await nutMouse.getPosition()
MouseGet(i) ==
  /\ mouse.tasks[i].pc = "get"
  /\ mouse' = [mouse EXCEPT !.tasks[i].pc = "set", !.tasks[i].pos = mouse.pos]
  /\ UNCHANGED <<relayVars, scope, client, kbd, cli, media, lateVars>>

\* the point handed to the backend: { x: pos.x + dx, y: pos.y + dy }
SetPositionArg(t) == <<t.pos[1] + t.dx, t.pos[2] + t.dy>>

\* await nutMouse.setPosition(...)
MouseSet(i) ==
  /\ mouse.tasks[i].pc = "set"
  /\ mouse' = [mouse EXCEPT
                 !.tasks[i].pc = "done",
                 !.pos = OsClamp(SetPositionArg(mouse.tasks[i])),
                 !.outside = @ \/ SetPositionArg(mouse.tasks[i]) \notin Screen]
  /\ UNCHANGED <<relayVars, scope, client, kbd, cli, media, lateVars>>

NextMouse ==
  \/ \E p \in Screen : CursorAt(p)
  \/ \E xq \in MoveXs, yq \in MoveYs : simulateMouse(xq, yq)
  \/ \E i \in 1..MaxMoves : i <= Len(mouse.tasks) /\ MouseGet(i)
  \/ \E i \in 1..MaxMoves : i <= Len(mouse.tasks) /\ MouseSet(i)

SpecMouse == Init /\ [][NextMouse]_vars

\* C27: the backend is never asked to put the cursor outside the screen.
C27_ClampedBeforeBackend == ~mouse.outside

\* C28: once every dispatched move has resolved, the cursor is at its start
\* position plus the sum of the scaled deltas of all moves (given that no
\* request left the screen).
C28_NoLostMove ==
  (/\ \A i \in DOMAIN mouse.tasks : mouse.tasks[i].pc = "done"
   /\ ~mouse.outside)
    => mouse.pos = mouse.ideal

\* ------------------------------------------ desktop app: media commands
\* executeMediaKey. Each exec starts a process and returns; its callback runs
\* when the process exits, with err set when it failed.
\* media.tasks[i]: the action of the i-th command, the targets whose exec has
\* been started (tried), the err of the execs that have exited (errs), and
\* whether an exec is still running (pc = "wait").
MaxMedia == 2

MediaActions == {"playpause", "next", "prev", "volumeup"}

Platforms == {"darwin", "win32", "linux"}

\* the commands executeMediaKey can start for an action, in nesting order
MediaTargets(platform, action) ==
  CASE platform = "darwin" /\ action \in {"playpause", "next", "prev"} ->
         <<"Spotify", "Music", "System Events">>
    [] platform = "darwin" -> <<"set volume">>
    [] platform = "win32" -> <<"SendKeys">>
    [] OTHER -> << >>

\* a callback that starts the next command whatever the outcome
NestedAlways(err) == TRUE

\* the test of the nested callbacks: if (err) exec(...next...)
Nested(err) == err

MediaBoot(platform) ==
  /\ media.platform = "unset"
  /\ media' = [media EXCEPT !.platform = platform]
  /\ UNCHANGED <<relayVars, scope, client, kbd, mouse, cli, lateVars>>

\* handleCommand: case 'media' -> executeMediaKey(msg.action): the first exec
\* of the action's switch case is started
executeMediaKey(action) ==
  LET targets == MediaTargets(media.platform, action)
  IN /\ media.platform # "unset"
     /\ Len(media.tasks) < MaxMedia
     /\ media' = [media EXCEPT !.tasks = Append(@,
          [action |-> action,
           tried |-> IF targets = << >> THEN << >> ELSE <<targets[1]>>,
           errs |-> << >>,
           pc |-> IF targets = << >> THEN "done" ELSE "wait"])]
     /\ UNCHANGED <<relayVars, scope, client, kbd, mouse, cli, lateVars>>

\* the running exec of command i exits and its callback, if it has one, runs
ExecExit(i, err) ==
  LET t == media.tasks[i]
      targets == MediaTargets(media.platform, t.action)
      more == Len(t.tried) < Len(targets) /\ Nested(err)
  IN /\ t.pc = "wait"
     /\ media' = [media EXCEPT
                    !.tasks[i].errs = Append(@, err),
                    !.tasks[i].tried = IF more THEN Append(@, targets[Len(t.tried) + 1])
                                       ELSE @,
                    !.tasks[i].pc = IF more THEN "wait" ELSE "done"]
     /\ UNCHANGED <<relayVars, scope, client, kbd, mouse, cli, lateVars>>

NextMedia ==
  \/ \E platform \in Platforms : MediaBoot(platform)
  \/ \E action \in MediaActions : executeMediaKey(action)
  \/ \E i \in 1..MaxMedia, err \in BOOLEAN : i <= Len(media.tasks) /\ ExecExit(i, err)

SpecMedia == Init /\ [][NextMedia]_vars

IsPrefix(a, b) == Len(a) <= Len(b) /\ \A j \in DOMAIN a : a[j] = b[j]

\* C29: a play/pause, next or prev command tries Spotify, then Music, then
\* the key emulation of the OS, in this order; a later attempt is made only
\* after every earlier one has failed, so none follows a success.
C29_MediaFallback ==
  \A i \in DOMAIN media.tasks :
    LET t == media.tasks[i]
    IN /\ (media.platform = "darwin" /\ t.action \in {"playpause", "next", "prev"})
            => IsPrefix(t.tried, <<"Spotify", "Music", "System Events">>)
       /\ \A j \in DOMAIN t.tried :
            j < Len(t.tried) => (j \in DOMAIN t.errs /\ t.errs[j])
       /\ t.pc = "done" => Len(t.errs) = Len(t.tried)

C29_Witness ==
  /\ media.platform = "darwin"
  /\ Len(media.tasks) = 2
  /\ media.tasks[1].action = "next"
  /\ media.tasks[1].tried = <<"Spotify", "Music", "System Events">>
  /\ media.tasks[2].action = "playpause"
  /\ media.tasks[2].tried = <<"Spotify", "Music">>
  /\ media.tasks[2].errs = <<TRUE, FALSE>>
  /\ media.tasks[2].pc = "done"

\* --------------------------- desktop app: mouse moves, cliclick backend
\* queueMouseMove and flushMouseMove, reached from simulateMouse when neither
\* nut-js nor robotjs is loaded. Coordinates are in quarters (x = xq / 4).
\* cli.moveTimer: the variable moveTimer holds a timer; cli.armed: timeouts
\* set and not fired yet; cli.window: the moves queued since the last flush;
\* cli.flushed: the moves covered by the flush that has just run; cli.calls:
\* the cliclick invocations it made, each a relative move <<dx, dy>> (both
\* are forgotten when the next move is queued).
MaxQueued == 3

CliXs == {0 - 4, 3, 4}

CliYs == {0, 2}

\* a queue that sets a timeout on every call
ArmAlways(moveTimer) == TRUE

\* if (!moveTimer) moveTimer = setTimeout(flushMouseMove, 16)
Arm(moveTimer) == ~moveTimer

\* simulateMouse(x, y, 'move') -> queueMouseMove(x, y)
queueMouseMove(xq, yq) ==
  /\ Len(cli.window) < MaxQueued
  /\ cli' = [cli EXCEPT
               !.pendingMoveX = @ + xq,
               !.pendingMoveY = @ + yq,
               !.moveTimer = TRUE,
               !.armed = IF Arm(cli.moveTimer) THEN @ + 1 ELSE @,
               !.window = Append(@, <<xq, yq>>),
               !.flushed = << >>,
               !.calls = << >>]
  /\ UNCHANGED <<relayVars, scope, client, kbd, mouse, media, lateVars>>

\* the timeout fires: flushMouseMove. execSync runs cliclick to its end (or to
\* its 100 ms timeout, whose exception is swallowed) before the function goes on
flushMouseMove ==
  /\ cli.armed > 0
  /\ cli' = [cli EXCEPT
               !.calls = IF cli.pendingMoveX # 0 \/ cli.pendingMoveY # 0
                         THEN <<<<Round2(cli.pendingMoveX), Round2(cli.pendingMoveY)>>>>
                         ELSE << >>,
               !.pendingMoveX = 0,
               !.pendingMoveY = 0,
               !.moveTimer = FALSE,
               !.armed = @ - 1,
               !.flushed = cli.window,
               !.window = << >>]
  /\ UNCHANGED <<relayVars, scope, client, kbd, mouse, media, lateVars>>

NextCli ==
  \/ \E xq \in CliXs, yq \in CliYs : queueMouseMove(xq, yq)
  \/ flushMouseMove

SpecCli == Init /\ [][NextCli]_vars

RECURSIVE SumOf(_, _)
SumOf(seq, k) == IF seq = << >> THEN 0 ELSE Head(seq)[k] + SumOf(Tail(seq), k)

\* the timer bookkeeping common to both readings of the coalescing: at most
\* one timeout is pending, and with nothing queued since the last flush the
\* pending move is empty and no timer is pending
CliTimerOK ==
  /\ cli.armed <= 1
  /\ cli.moveTimer <=> cli.armed = 1
  /\ cli.window = << >> => (cli.pendingMoveX = 0 /\ cli.pendingMoveY = 0 /\ ~cli.moveTimer)

\* C30, as stated: the moves of one window are debounced to the latest value,
\* which the flush hands to the backend in a single invocation; at most one
\* flush timer is pending, and after a flush nothing is pending.
C30_LatestValue ==
  /\ CliTimerOK
  /\ cli.flushed # << >> =>
       cli.calls = <<<<Round2(cli.flushed[Len(cli.flushed)][1]),
                       Round2(cli.flushed[Len(cli.flushed)][2])>>>>

\* C30, amended: the moves of one window are summed, and the flush hands the
\* scaled sum to the backend in one invocation, or makes no invocation when
\* the sum is zero; at most one flush timer is pending, and after a flush
\* nothing is pending.
C30_Accumulated ==
  /\ CliTimerOK
  /\ cli.flushed # << >> =>
       cli.calls = IF SumOf(cli.flushed, 1) = 0 /\ SumOf(cli.flushed, 2) = 0
                   THEN << >>
                   ELSE <<<<Round2(SumOf(cli.flushed, 1)), Round2(SumOf(cli.flushed, 2))>>>>

C30_Witness ==
  /\ Len(cli.flushed) = 3
  /\ cli.calls = <<<<Round2(SumOf(cli.flushed, 1)), Round2(SumOf(cli.flushed, 2))>>>>
  /\ cli.calls[1] # <<Round2(cli.flushed[3][1]), Round2(cli.flushed[3][2])>>
  /\ cli.window = << >>
  /\ ~cli.moveTimer

\* ------------------------------------------ desktop app: scroll commands
\* simulateScroll. The nut-js probe runs once when main.js is loaded and
\* leaves nutMouse set or null; process.platform is read at the same time.
\* scroll.tasks[i] is what the i-th command still waits for, scroll.calls the
\* backend invocations made so far, scroll.failedAt[i] the length of
\* scroll.calls when an invocation of command i failed (0: none failed),
\* scroll.logged the commands whose failure was written to the console.
earlyDesktop == <<client, kbd, mouse, cli, media>>

MaxScrolls == 2

DeltaXs == {0, 100}

DeltaYs == {0, 30, 0 - 200}

Abs(n) == IF n < 0 THEN 0 - n ELSE n

\* Math.round(n / d) for d > 0: halves go up
JsRound(n, d) == (2 * n + d) \div (2 * d)

ScrollCall(cmd, mech, arg) == [cmd |-> cmd, mech |-> mech, arg |-> arg]

\* the automation mechanism the start-up probe selected
Selected(backend, platform) ==
  CASE backend = "nut" -> "nut"
    [] platform = "darwin" -> "osascript"
    [] platform = "win32" -> "powershell"
    [] OTHER -> "none"

\* the mechanism a call belongs to
MechOf(mech) ==
  CASE mech \in {"scrollDown", "scrollUp"} -> "nut"
    [] mech \in {"scroll", "keycode"} -> "osascript"
    [] OTHER -> "powershell"

Repeat(n, x) == [k \in 1..n |-> x]

\* the require of nut-js at load time and process.platform
ScrollBoot(nutFound, platform) ==
  /\ scroll.backend = "unset"
  /\ scroll' = [scroll EXCEPT !.backend = IF nutFound THEN "nut" ELSE "none",
                              !.platform = platform]
  /\ UNCHANGED <<relayVars, scope, earlyDesktop, page, srv, bg>>

\* handleCommand: case 'scroll' -> simulateScroll(deltaX, deltaY, natural)
simulateScroll(deltaX, deltaY, natural) ==
  LET scrollY == IF natural THEN 0 - deltaY ELSE deltaY
      scrollX == IF natural THEN 0 - deltaX ELSE deltaX
      i == Len(scroll.tasks) + 1
      amount30 == JsRound(scrollY, 30)
      amount10 == JsRound(scrollY, 10)
      times == Min2(Abs(amount30), 5)
  IN /\ scroll.backend # "unset"
     /\ Len(scroll.tasks) < MaxScrolls
     /\ scroll' =
          IF scroll.backend = "nut"
          THEN [scroll EXCEPT
                  !.tasks = Append(@,
                    IF amount30 # 0
                    THEN <<ScrollCall(i, "scrollDown",
                                      IF amount30 > 0 THEN amount30 ELSE 0),
                           ScrollCall(i, "scrollUp",
                                      IF amount30 < 0 THEN 0 - amount30 ELSE 0)>>
                    ELSE << >>),
                  !.failedAt = Append(@, 0)]
          ELSE IF scroll.platform = "darwin"
          THEN IF Abs(scrollY) > Abs(scrollX)
               THEN [scroll EXCEPT
                       !.calls = Append(@, ScrollCall(i, "scroll", amount10)),
                       !.tasks = Append(@, <<ScrollCall(i, "callback", scrollY)>>),
                       !.failedAt = Append(@, 0)]
               ELSE [scroll EXCEPT !.tasks = Append(@, << >>),
                                   !.failedAt = Append(@, 0)]
          ELSE IF scroll.platform = "win32"
          THEN [scroll EXCEPT
                  !.calls = @ \o (IF amount30 # 0
                                  THEN Repeat(times,
                                         ScrollCall(i, IF amount30 > 0
                                                       THEN "PGDN" ELSE "PGUP", 1))
                                  ELSE << >>),
                  !.tasks = Append(@, << >>),
                  !.failedAt = Append(@, 0)]
          ELSE [scroll EXCEPT !.tasks = Append(@, << >>),
                              !.failedAt = Append(@, 0)]
     /\ UNCHANGED <<relayVars, scope, earlyDesktop, page, srv, bg>>

\* the async function of the nut-js branch makes its next awaited call; a
\* rejected call is caught and logged, the calls after it are not made
ScrollNutCall(i, err) ==
  /\ i \in DOMAIN scroll.tasks
  /\ scroll.tasks[i] # << >>
  /\ Head(scroll.tasks[i]).mech # "callback"
  /\ scroll' =
       IF err
       THEN [scroll EXCEPT !.calls = Append(@, Head(scroll.tasks[i])),
                           !.tasks[i] = << >>,
                           !.failedAt[i] = Len(scroll.calls) + 1,
                           !.logged = @ \cup {i}]
       ELSE [scroll EXCEPT !.calls = Append(@, Head(scroll.tasks[i])),
                           !.tasks[i] = Tail(@)]
  /\ UNCHANGED <<relayVars, scope, earlyDesktop, page, srv, bg>>

\* the callback of the osascript scroll of command i runs: on an error it
\* starts up to five key-code osascript commands, arrow down or arrow up
ScrollExecExit(i, err) ==
  /\ i \in DOMAIN scroll.tasks
  /\ scroll.tasks[i] # << >>
  /\ Head(scroll.tasks[i]).mech = "callback"
  /\ LET scrollY == Head(scroll.tasks[i]).arg
         keyCode == IF scrollY > 0 THEN 125 ELSE 126
         times == Min2(Abs(JsRound(scrollY, 30)), 5)
     IN scroll' =
          IF err
          THEN [scroll EXCEPT
                  !.failedAt[i] = Len(scroll.calls),
                  !.calls = @ \o Repeat(times, ScrollCall(i, "keycode", keyCode)),
                  !.tasks[i] = << >>]
          ELSE [scroll EXCEPT !.tasks[i] = << >>]
  /\ UNCHANGED <<relayVars, scope, earlyDesktop, page, srv, bg>>

NextScroll ==
  \/ \E nutFound \in BOOLEAN, platform \in Platforms :
       ScrollBoot(nutFound, platform)
  \/ \E deltaX \in DeltaXs, deltaY \in DeltaYs, natural \in BOOLEAN :
       simulateScroll(deltaX, deltaY, natural)
  \/ \E i \in 1..MaxScrolls, err \in BOOLEAN : ScrollNutCall(i, err)
  \/ \E i \in 1..MaxScrolls, err \in BOOLEAN : ScrollExecExit(i, err)

SpecScroll == Init /\ [][NextScroll]_vars

\* C31: every backend invocation of a scroll command is made through the
\* mechanism selected at start-up, and when an invocation of a command has
\* failed the failure is logged and no further invocation is made for that
\* command (no retry, no other mechanism).
C31_FailedActionDropped ==
  /\ \A k \in DOMAIN scroll.calls :
       MechOf(scroll.calls[k].mech) = Selected(scroll.backend, scroll.platform)
  /\ \A i \in DOMAIN scroll.failedAt :
       scroll.failedAt[i] > 0 =>
         /\ i \in scroll.logged
         /\ \A k \in (scroll.failedAt[i] + 1)..Len(scroll.calls) :
              scroll.calls[k].cmd # i

\* ------------------------------------------ extension: content scripts
\* The content script of popup.js (profiles, siteHandlers, detectSiteProfile,
\* handleAction) and the one of content.js (getSiteType, siteActions,
\* handleAction). A hostname is the sequence of its labels and a path the
\* sequence of its segments; String.includes on them is the test for a
\* contiguous run of labels, respectively for a segment.
\* page.ran is what the last handled action executed, in order, and
\* page.under the profile that was active when it was handled.
H(a, b) == <<a, b>>

H3(a, b, c) == <<a, b, c>>

\* a comparison of the whole hostname in place of host.includes(site)
HostEquals(host, site) == host = site

\* host.includes(site)
HostIncludes(host, site) ==
  \E i \in 1..(Len(host) - Len(site) + 1) :
    \A k \in 1..Len(site) : host[i + k - 1] = site[k]

\* path.includes('/' + segment)
PathIncludes(path, segment) == \E i \in 1..Len(path) : path[i] = segment

\* popup.js: detectSiteProfile
detectSiteProfile(host, path) ==
  IF \/ HostIncludes(host, H("youtube", "com"))
     \/ HostIncludes(host, H("netflix", "com"))
     \/ HostIncludes(host, H("vimeo", "com"))
     \/ HostIncludes(host, H("twitch", "tv"))
     \/ HostIncludes(host, H("disneyplus", "com"))
     \/ HostIncludes(host, H("hulu", "com"))
     \/ HostIncludes(host, H("primevideo", "com"))
  THEN "video"
  ELSE IF /\ HostIncludes(host, H3("docs", "google", "com"))
          /\ PathIncludes(path, "presentation")
  THEN "presentation"
  ELSE IF \/ HostIncludes(host, H3("slides", "google", "com"))
          \/ HostIncludes(host, H("prezi", "com"))
          \/ /\ HostIncludes(host, H("canva", "com"))
             /\ PathIncludes(path, "design")
  THEN "presentation"
  ELSE IF \/ HostIncludes(host, H("zoom", "us"))
          \/ HostIncludes(host, H3("meet", "google", "com"))
          \/ HostIncludes(host, H3("teams", "microsoft", "com"))
          \/ HostIncludes(host, H("webex", "com"))
  THEN "meeting"
  ELSE IF \/ HostIncludes(host, H("medium", "com"))
          \/ HostIncludes(host, H("reddit", "com"))
          \/ HostIncludes(host, H3("news", "ycombinator", "com"))
          \/ HostIncludes(host, H("wikipedia", "org"))
          \/ HostIncludes(host, H("substack", "com"))
  THEN "scroll"
  ELSE "universal"

\* content.js: getSiteType
getSiteType(host, path) ==
  IF HostIncludes(host, H("youtube", "com"))
  THEN "youtube"
  ELSE IF HostIncludes(host, H("netflix", "com"))
  THEN "netflix"
  ELSE IF HostIncludes(host, H("vimeo", "com"))
  THEN "vimeo"
  ELSE IF HostIncludes(host, H("twitch", "tv"))
  THEN "twitch"
  ELSE IF HostIncludes(host, H("spotify", "com"))
  THEN "spotify"
  ELSE IF HostIncludes(host, H("primevideo", "com"))
  THEN "primevideo"
  ELSE IF HostIncludes(host, H("disneyplus", "com"))
  THEN "disneyplus"
  ELSE IF HostIncludes(host, H3("docs", "google", "com")) /\ PathIncludes(path, "presentation")
  THEN "slides"
  ELSE IF HostIncludes(host, H3("docs", "google", "com")) /\ PathIncludes(path, "document")
  THEN "docs"
  ELSE IF HostIncludes(host, H3("docs", "google", "com")) /\ PathIncludes(path, "spreadsheets")
  THEN "sheets"
  ELSE IF HostIncludes(host, H("notion", "so"))
  THEN "notion"
  ELSE IF HostIncludes(host, H("figma", "com"))
  THEN "figma"
  ELSE IF HostIncludes(host, H("zoom", "us"))
  THEN "zoom"
  ELSE IF HostIncludes(host, H3("meet", "google", "com"))
  THEN "meet"
  ELSE IF HostIncludes(host, H3("teams", "microsoft", "com"))
  THEN "teams"
  ELSE "universal"

\* popup.js: the action names of each entry of siteHandlers, in insertion
\* order of the object
siteHandlers ==
  <<[site |-> H("youtube", "com"),
     actions |-> {"play", "seekForward", "seekBack", "volumeUp", "volumeDown",
                  "mute", "fullscreen", "up", "down", "left", "right", "a",
                  "x"}],
    [site |-> H("netflix", "com"),
     actions |-> {"play", "seekForward", "seekBack"}]>>

\* popup.js: getSiteHandler, the index of the first entry whose site the
\* hostname includes, 0 for null
getSiteHandler(host) ==
  IF \E k \in DOMAIN siteHandlers : HostIncludes(host, siteHandlers[k].site)
  THEN CHOOSE k \in DOMAIN siteHandlers :
         /\ HostIncludes(host, siteHandlers[k].site)
         /\ \A j \in 1..(k - 1) : ~HostIncludes(host, siteHandlers[j].site)
  ELSE 0

\* popup.js: profiles, each action's mapping reduced to its key (a scroll
\* mapping to "scroll")
profiles ==
  [universal |-> [up |-> "ArrowUp", down |-> "ArrowDown", left |-> "ArrowLeft",
                  right |-> "ArrowRight", a |-> "Enter", b |-> "Escape",
                  x |-> "Space", y |-> "Tab"],
   presentation |-> [swipeLeft |-> "ArrowRight", swipeRight |-> "ArrowLeft",
                     swipeUp |-> "ArrowUp", swipeDown |-> "ArrowDown",
                     tap |-> "ArrowRight", a |-> "Enter", b |-> "Escape"],
   video |-> [play |-> "Space", mute |-> "m", fullscreen |-> "f",
              seekBack |-> "ArrowLeft", seekForward |-> "ArrowRight",
              volumeUp |-> "ArrowUp", volumeDown |-> "ArrowDown",
              captions |-> "c"],
   meeting |-> [mute |-> "d", video |-> "e", chat |-> "h", raise |-> "y",
                leave |-> "w"],
   scroll |-> [scrollUp |-> "scroll", scrollDown |-> "scroll",
               pageUp |-> "PageUp", pageDown |-> "PageDown", top |-> "Home",
               bottom |-> "End", back |-> "ArrowLeft", forward |-> "ArrowRight"],
   mouse |-> << >>]

\* profiles[currentProfile]?.[action], "undefined" when either is missing
ProfileMapping(profile, action) ==
  IF profile \in DOMAIN profiles THEN Lookup(profiles[profile], action)
  ELSE "undefined"

\* content.js: the action names of siteActions[siteType] || siteActions.universal
siteActions(siteType) ==
  CASE siteType = "youtube" ->
         {"play", "seekForward", "seekBack", "volumeUp", "volumeDown", "mute",
          "fullscreen", "captions", "next", "like"}
    [] siteType = "netflix" ->
         {"play", "seekForward", "seekBack", "mute", "fullscreen"}
    [] siteType = "slides" -> {"next", "prev", "play", "exit"}
    [] siteType \in {"zoom", "meet"} -> {"mute", "video", "chat", "leave"}
    [] OTHER -> {}

\* content.js: the cases of the switch in handleAction
UniversalActions ==
  {"up", "down", "left", "right", "enter", "escape", "space", "tab", "back",
   "forward", "refresh", "scrollUp", "scrollDown"}

ProfileNames ==
  {"universal", "presentation", "video", "meeting", "scroll", "mouse"}

ActionNames == {"up", "play", "mute", "a", "swipeLeft", "scrollUp", "next", "zz"}

\* the hostnames the patterns of detectSiteProfile name
PatternHosts ==
  {H("youtube", "com"), H("netflix", "com"), H("vimeo", "com"),
   H("twitch", "tv"), H("disneyplus", "com"), H("hulu", "com"),
   H("primevideo", "com"), H3("docs", "google", "com"),
   H3("slides", "google", "com"), H("prezi", "com"), H("canva", "com"),
   H("zoom", "us"), H3("meet", "google", "com"),
   H3("teams", "microsoft", "com"), H("webex", "com"), H("medium", "com"),
   H("reddit", "com"), H3("news", "ycombinator", "com"),
   H("wikipedia", "org"), H("substack", "com")}

MixHosts ==
  {H("vimeo", "com"), H3("meet", "google", "com"), H3("docs", "google", "com"),
   H("canva", "com"), H("medium", "com")}

\* window.location.hostname: a pattern's hostname, one below www, a hostname
\* no pattern names, and hostnames that run two pattern hostnames together
Hostnames ==
  PatternHosts \cup {<<"www">> \o h : h \in PatternHosts}
    \cup {H("example", "org")}
    \cup {a \o b : a \in MixHosts, b \in MixHosts}

\* window.location.pathname
Pathnames ==
  {<< >>, <<"watch">>, <<"presentation", "d", "x">>, <<"design", "abc">>}

PageRan(tier, key) == [tier |-> tier, key |-> key]

\* the content script is injected into a page
PageLoad(script, host, path) ==
  /\ page.script = "none"
  /\ page' = [page EXCEPT !.script = script, !.host = host, !.path = path]
  /\ UNCHANGED <<relayVars, scope, earlyDesktop, scroll, srv, bg>>

\* popup.js: broadcastDetectedProfile, 500 ms after the socket opened
broadcastDetectedProfile ==
  /\ page.script = "popup.js"
  /\ page.detected = "none"
  /\ page' = [page EXCEPT !.detected = detectSiteProfile(page.host, page.path)]
  /\ UNCHANGED <<relayVars, scope, earlyDesktop, scroll, srv, bg>>

\* popup.js: chrome.runtime.onMessage, type 'setProfile'
SetProfile(profile) ==
  /\ page.script = "popup.js"
  /\ page' = [page EXCEPT !.currentProfile = profile]
  /\ UNCHANGED <<relayVars, scope, earlyDesktop, scroll, srv, bg>>

\* popup.js: handleAction(action), with the simulateKey it calls
handleAction(action) ==
  LET handler == getSiteHandler(page.host)
      mapping == ProfileMapping(page.currentProfile, action)
  IN /\ page.script = "popup.js"
     /\ page' = [page EXCEPT
                   !.action = action,
                   !.under = page.currentProfile,
                   !.ran = IF handler # 0 /\ action \in siteHandlers[handler].actions
                           THEN <<PageRan("site", action)>>
                           ELSE IF mapping # "undefined"
                           THEN <<PageRan("profile", mapping)>>
                           ELSE << >>]
     /\ UNCHANGED <<relayVars, scope, earlyDesktop, scroll, srv, bg>>

\* content.js: handleAction(action, value)
contentHandleAction(action) ==
  LET handlers == siteActions(getSiteType(page.host, page.path))
  IN /\ page.script = "content.js"
     /\ page' = [page EXCEPT
                   !.action = action,
                   !.ran = IF action \in handlers
                           THEN <<PageRan("site", action)>>
                           ELSE IF action \in UniversalActions
                           THEN <<PageRan("universal", action)>>
                           ELSE << >>]
     /\ UNCHANGED <<relayVars, scope, earlyDesktop, scroll, srv, bg>>

NextPage ==
  \/ \E script \in {"popup.js", "content.js"}, host \in Hostnames,
        path \in Pathnames : PageLoad(script, host, path)
  \/ broadcastDetectedProfile
  \/ \E profile \in ProfileNames : SetProfile(profile)
  \/ \E action \in ActionNames : handleAction(action)
  \/ \E action \in ActionNames : contentHandleAction(action)

SpecPage == Init /\ [][NextPage]_vars

\* the patterns of detectSiteProfile: hostname, path segment ("" for none),
\* profile, and the number of characters of the pattern's strings
SitePattern(site, segment, profile, chars) ==
  [site |-> site, segment |-> segment, profile |-> profile, chars |-> chars]

SitePatterns ==
  {SitePattern(H("youtube", "com"), "", "video", 11),
   SitePattern(H("netflix", "com"), "", "video", 11),
   SitePattern(H("vimeo", "com"), "", "video", 9),
   SitePattern(H("twitch", "tv"), "", "video", 9),
   SitePattern(H("disneyplus", "com"), "", "video", 14),
   SitePattern(H("hulu", "com"), "", "video", 8),
   SitePattern(H("primevideo", "com"), "", "video", 14),
   SitePattern(H3("docs", "google", "com"), "presentation", "presentation", 28),
   SitePattern(H3("slides", "google", "com"), "", "presentation", 17),
   SitePattern(H("prezi", "com"), "", "presentation", 9),
   SitePattern(H("canva", "com"), "design", "presentation", 16),
   SitePattern(H("zoom", "us"), "", "meeting", 7),
   SitePattern(H3("meet", "google", "com"), "", "meeting", 15),
   SitePattern(H3("teams", "microsoft", "com"), "", "meeting", 19),
   SitePattern(H("webex", "com"), "", "meeting", 9),
   SitePattern(H("medium", "com"), "", "scroll", 10),
   SitePattern(H("reddit", "com"), "", "scroll", 10),
   SitePattern(H3("news", "ycombinator", "com"), "", "scroll", 20),
   SitePattern(H("wikipedia", "org"), "", "scroll", 13),
   SitePattern(H("substack", "com"), "", "scroll", 12)}

\* the patterns a location matches: the pattern's hostname is a run of labels
\* of the hostname and its segment, if any, is a segment of the path
Matching(host, path) ==
  {p \in SitePatterns :
     /\ \E i \in 1..Len(host) : \E j \in i..Len(host) : SubSeq(host, i, j) = p.site
     /\ p.segment # "" => \E i \in DOMAIN path : path[i] = p.segment}

\* the position of a profile's patterns in the list
ProfileRank(profile) ==
  CASE profile = "video" -> 1
    [] profile = "presentation" -> 2
    [] profile = "meeting" -> 3
    [] profile = "scroll" -> 4

\* C32 as stated: the profile detected for a location is the profile of a
\* longest pattern the location matches, and `universal` when it matches none.
C32_LongestMatch ==
  page.detected # "none" =>
    LET ms == Matching(page.host, page.path)
    IN IF ms = {} THEN page.detected = "universal"
       ELSE \E p \in ms : /\ \A q \in ms : q.chars <= p.chars
                          /\ page.detected = p.profile

\* C32: the profile detected for a location is the profile of the first
\* pattern group, in the order video, presentation, meeting, scroll, of which
\* the location matches a pattern, and `universal` when it matches none;
\* (youtube.com, /watch) gives video, (docs.google.com, /presentation/d/x)
\* gives presentation, (example.org, /) gives universal.
C32_FirstMatch ==
  /\ page.detected # "none" =>
       LET ms == Matching(page.host, page.path)
       IN IF ms = {} THEN page.detected = "universal"
          ELSE \E p \in ms :
                 /\ \A q \in ms : ProfileRank(p.profile) <= ProfileRank(q.profile)
                 /\ page.detected = p.profile
  /\ detectSiteProfile(H("youtube", "com"), <<"watch">>) = "video"
  /\ detectSiteProfile(H3("docs", "google", "com"), <<"presentation", "d", "x">>)
       = "presentation"
  /\ detectSiteProfile(H("example", "org"), << >>) = "universal"

\* a hostname that matches patterns of two profiles has been classified, and
\* so has a hostname below www
C32_Witness ==
  /\ page.detected = "video"
  /\ \E p \in Matching(page.host, page.path) : p.profile = "meeting"

\* the tier the three-tier resolution selects for the last action: the site
\* handler if it defines the action, else the active profile's mapping, else
\* the universal default, "none" when no tier defines the action
ResolvedTier ==
  IF page.script = "popup.js"
  THEN IF /\ getSiteHandler(page.host) # 0
          /\ page.action \in siteHandlers[getSiteHandler(page.host)].actions
       THEN "site"
       ELSE IF ProfileMapping(page.under, page.action) # "undefined"
       THEN "profile"
       ELSE IF Lookup(profiles.universal, page.action) # "undefined"
       THEN "universal"
       ELSE "none"
  ELSE IF page.action \in siteActions(getSiteType(page.host, page.path))
       THEN "site"
       ELSE IF page.action \in UniversalActions THEN "universal" ELSE "none"

\* C33: an action handled by a display executes exactly one tier, the first
\* of site handler, active profile mapping and universal default mapping
\* that defines the action.
C33_ThreeTiers ==
  page.action # "none" =>
    IF ResolvedTier = "none" THEN page.ran = << >>
    ELSE /\ Len(page.ran) = 1
         /\ page.ran[1].tier = ResolvedTier

\* ------------------------------------------ desktop app: local server
\* The express application of main.js: express.json, the session validation
\* middleware, then the routes. One action handles one request from its
\* arrival to its response.
HISTORY_LIMIT == 100

MaxRequests == 2

MaxLogged == 102

MaxRegisters == 1

\* sessionHistory.slice(0, 100): the oldest entries
TrimOldest(history) ==
  IF Len(history) > HISTORY_LIMIT THEN SubSeq(history, 1, HISTORY_LIMIT)
  ELSE history

\* if (sessionHistory.length > 100) sessionHistory = sessionHistory.slice(-100)
Trim(history) ==
  IF Len(history) > HISTORY_LIMIT
  THEN SubSeq(history, Len(history) - HISTORY_LIMIT + 1, Len(history))
  ELSE history

\* logSession(deviceId, action) at the instant s.clock + 1
logSession(s, deviceId, action) ==
  [s EXCEPT !.sessionHistory =
              Trim(Append(@, [deviceId |-> deviceId, action |-> action,
                              timestamp |-> s.clock + 1])),
            !.clock = @ + 1]

\* handleCommand(msg, deviceId): the entry in the history, then the input
handleCommand(s, type, deviceId) ==
  [logSession(s, deviceId, type) EXCEPT !.inputs = @ + 1]

Routes ==
  {"/", "/api/license", "/cmd", "/register", "/history", "/clipboard",
   "/shortcuts", "/upload"}

\* "good" is SESSION_TOKEN, "none" an absent parameter or header
Tokens == {"none", "good", "bad"}

Requests ==
  [path : Routes, s : Tokens, header : Tokens, body : {"ok", "malformed"}]

\* req.query.s || req.headers['x-session']
TokenOf(r) == IF r.s # "none" THEN r.s ELSE r.header

\* a validation that lets every path through
ExemptAny(path) == path \in Routes

\* req.path === '/' || req.path.startsWith('/api/license')
Exempt(path) == path \in {"/", "/api/license"}

\* the route handlers, for a request that passed the middleware
Route(s, r) ==
  CASE r.path = "/cmd" -> [handleCommand(s, "key", "d1") EXCEPT !.res = 200]
    [] r.path = "/register" ->
         [logSession([s EXCEPT !.connectedDevices = @ \cup {"d1"}],
                     "d1", "connected")
            EXCEPT !.regs = @ + 1, !.res = 200]
    [] r.path = "/clipboard" -> [s EXCEPT !.clipboard = "text", !.res = 200]
    [] r.path = "/shortcuts" -> [s EXCEPT !.customShortcuts = "custom", !.res = 200]
    [] r.path = "/upload" -> [s EXCEPT !.files = @ \cup {"f"}, !.res = 200]
    [] OTHER -> [s EXCEPT !.res = 200]

\* a request goes through express.json (a body that does not parse is
\* answered 400 by the parser), the session validation, then its route
Request(r) ==
  LET s == [srv EXCEPT !.req = r, !.reqs = @ + 1]
  IN /\ srv' = IF r.body = "malformed" THEN [s EXCEPT !.res = 400]
               ELSE IF ~Exempt(r.path) /\ TokenOf(r) # "good"
               THEN [s EXCEPT !.res = 403]
               ELSE Route(s, r)
     /\ UNCHANGED <<relayVars, scope, earlyDesktop, scroll, page, bg>>

\* any request, a few of them
HttpRequest(r) ==
  /\ srv.reqs < MaxRequests
  /\ Request(r)

\* the requests that log: commands and registrations of a paired device
LogRequests ==
  {r \in Requests : /\ r.path \in {"/cmd", "/register"}
                    /\ r.s = "good" /\ r.header = "none" /\ r.body = "ok"}

LogRequest(r) ==
  /\ srv.clock < MaxLogged
  /\ r.path = "/register" => srv.regs < MaxRegisters
  /\ Request(r)

NextHttp == \E r \in Requests : HttpRequest(r)

SpecHttp == Init /\ [][NextHttp]_vars

NextLog == \E r \in LogRequests : LogRequest(r)

SpecLog == Init /\ [][NextLog]_vars

\* C34: the session history never holds more than 100 entries, and its
\* entries are the most recent ones logged, oldest first.
C34_HistoryBounded ==
  /\ Len(srv.sessionHistory) <= HISTORY_LIMIT
  /\ \A i \in DOMAIN srv.sessionHistory :
       srv.sessionHistory[i].timestamp
         = srv.clock - Len(srv.sessionHistory) + i

\* more than 100 entries were logged, by commands and a registration
C34_Witness ==
  /\ srv.clock > HISTORY_LIMIT
  /\ Len(srv.sessionHistory) = HISTORY_LIMIT
  /\ srv.regs > 0

\* what a request can change: history, devices, shortcuts, clipboard,
\* uploaded files, inputs executed
Effects(s) ==
  <<s.sessionHistory, s.connectedDevices, s.customShortcuts, s.clipboard,
    s.files, s.inputs>>

\* a request to an endpoint other than / and /api/license whose token, the
\* query parameter s or else the header x-session, is not SESSION_TOKEN
Guarded(r) ==
  /\ r.path \notin {"/", "/api/license"}
  /\ (IF r.s # "none" THEN r.s ELSE r.header) # "good"

\* C39 as stated: a request to a guarded endpoint whose token differs from
\* SESSION_TOKEN is answered 403 and changes nothing.
C39_InvalidToken403 ==
  [][(srv'.reqs # srv.reqs /\ Guarded(srv'.req))
       => (srv'.res = 403 /\ Effects(srv') = Effects(srv))]_vars

\* C39: a request to a guarded endpoint whose token differs from
\* SESSION_TOKEN changes nothing and is answered 403, or 400 when its body
\* does not parse.
C39_InvalidTokenNoEffect ==
  [][(srv'.reqs # srv.reqs /\ Guarded(srv'.req))
       => /\ Effects(srv') = Effects(srv)
          /\ srv'.res = IF srv'.req.body = "malformed" THEN 400 ELSE 403]_vars

\* a command with a wrong token was refused after state had been changed by
\* requests carrying SESSION_TOKEN
C39_Witness ==
  /\ srv.req.path = "/cmd" /\ TokenOf(srv.req) = "bad" /\ srv.req.body = "ok"
  /\ srv.res = 403
  /\ srv.inputs > 0

\* ------------------------------------------ extension: background client
\* background.js: connectToServer with its awaits, the socket handlers and
\* the popup's connect / newSession / disconnect messages. A call of
\* connectToServer runs to its first await in the step that makes the call;
\* the continuation after each await is a step of its own.
MaxBgSockets == 3

MaxBgCalls == 2

MaxBgTimers == 2

MaxBgMsgs == 3

BgSock(state, room) == [state |-> state, room |-> room, joined |-> 0]

\* ws && ws.readyState === WebSocket.OPEN
BgOpen(b) == b.ws # 0 /\ b.socks[b.ws].state = "open"

\* the call fits the bounds: it returns at once, or may start a fetch, or may
\* create a socket
BgRoom(b) ==
  IF BgOpen(b) THEN TRUE
  ELSE IF b.roomId = 0 THEN Len(b.calls) < MaxBgCalls
  ELSE Len(b.socks) < MaxBgSockets

\* ws = new WebSocket(wsUrl) with the handlers of connectToServer
NewSocket(b) ==
  [b EXCEPT !.socks = Append(@, BgSock("connecting", b.roomId)),
            !.ws = Len(b.socks) + 1]

\* connectToServer up to its first await or its end
connectToServer(b) ==
  IF BgOpen(b) THEN b
  ELSE IF b.roomId = 0 THEN [b EXCEPT !.calls = Append(@, "fetch")]
  ELSE NewSocket(b)

\* ws.close(): a socket that is not closed yet starts closing
CloseSocket(b, k) ==
  IF k # 0 /\ b.socks[k].state \in {"connecting", "open"}
  THEN [b EXCEPT !.socks[k].state = "closing"]
  ELSE b

\* chrome.runtime.onMessage, type 'connect'
BgConnect ==
  /\ bg.msgs < MaxBgMsgs
  /\ BgRoom(bg)
  /\ bg' = connectToServer([bg EXCEPT !.idle = FALSE, !.msgs = @ + 1])
  /\ UNCHANGED <<relayVars, scope, earlyDesktop, scroll, page, srv>>

\* chrome.runtime.onMessage, type 'newSession'
BgNewSession ==
  LET b == [CloseSocket(bg, bg.ws) EXCEPT !.roomId = 0, !.stored = 0,
                                          !.idle = FALSE, !.fresh = TRUE,
                                          !.msgs = @ + 1]
  IN /\ bg.msgs < MaxBgMsgs
     /\ BgRoom(b)
     /\ bg' = connectToServer(b)
     /\ UNCHANGED <<relayVars, scope, earlyDesktop, scroll, page, srv>>

\* chrome.runtime.onMessage, type 'disconnect'
BgDisconnect ==
  /\ bg.msgs < MaxBgMsgs
  /\ bg' = [CloseSocket(bg, bg.ws) EXCEPT !.ws = 0, !.idle = TRUE,
                                          !.msgs = @ + 1]
  /\ UNCHANGED <<relayVars, scope, earlyDesktop, scroll, page, srv>>

\* the fetch of POST /api/rooms and res.json() of call i settle: the relay
\* created a room and roomId is its code, or the fetch was rejected and the
\* catch block arms a retry
BgFetchDone(i, ok) ==
  /\ i \in DOMAIN bg.calls
  /\ bg.calls[i] = "fetch"
  /\ ~ok => bg.timers < MaxBgTimers
  /\ bg' = IF ok
           THEN [bg EXCEPT !.rooms = @ + 1, !.roomId = bg.rooms + 1,
                           !.calls[i] = "store"]
           ELSE [bg EXCEPT !.calls[i] = "done", !.timers = @ + 1]
  /\ UNCHANGED <<relayVars, scope, earlyDesktop, scroll, page, srv>>

\* chrome.storage.local.set of call i settles and the call goes on to create
\* its socket for the roomId of this instant
BgStoreDone(i) ==
  /\ i \in DOMAIN bg.calls
  /\ bg.calls[i] = "store"
  /\ Len(bg.socks) < MaxBgSockets
  /\ bg' = NewSocket([bg EXCEPT !.calls[i] = "done", !.stored = bg.roomId])
  /\ UNCHANGED <<relayVars, scope, earlyDesktop, scroll, page, srv>>

\* ws.onopen of socket k: reconnectAttempts = 0, then ws.send of the join
\* through the variable ws, which throws when ws is null or not open
BgOnOpen(k) ==
  /\ k \in DOMAIN bg.socks
  /\ bg.socks[k].state = "connecting"
  /\ LET b == [bg EXCEPT !.socks[k].state = "open", !.reconnectAttempts = 0]
     IN bg' = IF BgOpen(b) THEN [b EXCEPT !.socks[b.ws].joined = b.roomId]
              ELSE b
  /\ UNCHANGED <<relayVars, scope, earlyDesktop, scroll, page, srv>>

\* ws.onclose of socket k, closed by close() or by the transport
BgOnClose(k) ==
  /\ k \in DOMAIN bg.socks
  /\ bg.socks[k].state # "closed"
  /\ bg.reconnectAttempts < MAX_RECONNECT_ATTEMPTS => bg.timers < MaxBgTimers
  /\ bg' = IF bg.reconnectAttempts < MAX_RECONNECT_ATTEMPTS
           THEN [bg EXCEPT !.socks[k].state = "closed", !.ws = 0,
                           !.reconnectAttempts = @ + 1, !.timers = @ + 1]
           ELSE [bg EXCEPT !.socks[k].state = "closed", !.ws = 0]
  /\ UNCHANGED <<relayVars, scope, earlyDesktop, scroll, page, srv>>

\* a setTimeout(connectToServer, delay) fires
BgTimer ==
  /\ bg.timers > 0
  /\ BgRoom(bg)
  /\ bg' = connectToServer([bg EXCEPT !.timers = @ - 1])
  /\ UNCHANGED <<relayVars, scope, earlyDesktop, scroll, page, srv>>

NextBg ==
  \/ BgConnect
  \/ BgNewSession
  \/ BgDisconnect
  \/ \E i \in 1..MaxBgCalls, ok \in BOOLEAN : BgFetchDone(i, ok)
  \/ \E i \in 1..MaxBgCalls : BgStoreDone(i)
  \/ \E k \in 1..MaxBgSockets : BgOnOpen(k)
  \/ \E k \in 1..MaxBgSockets : BgOnClose(k)
  \/ BgTimer

SpecBg == Init /\ [][NextBg]_vars

\* the sockets that are connecting or open
BgLive == {k \in DOMAIN bg.socks : bg.socks[k].state \in {"connecting", "open"}}

\* C35: at most one socket is connecting or open, and ws refers to it.
C35_SingleSocket ==
  /\ Cardinality(BgLive) <= 1
  /\ \A k \in BgLive : bg.ws = k

\* C36: as long as no new session was requested, at most one room has been
\* created on the relay, and an open socket that sent its join joined the
\* stored roomId.
C36_OneRoom ==
  ~bg.fresh =>
    /\ bg.rooms <= 1
    /\ \A k \in DOMAIN bg.socks :
         (bg.socks[k].state = "open" /\ bg.socks[k].joined # 0)
           => bg.socks[k].joined = bg.roomId

\* C37: from a disconnect request until the next connect or newSession
\* request no retry is scheduled and no socket is created.
C37_StaysDisconnected ==
  [][(bg.idle /\ bg'.idle)
       => (bg'.timers <= bg.timers /\ Len(bg'.socks) = Len(bg.socks))]_vars

\* ------------------------------------------ desktop app: failing key calls
\* The awaited pressKey / releaseKey of command i rejects: the catch block of
\* simulateKeystroke (the .catch of simulateKey) logs the error and the calls
\* that were still to come are not made.
KeyThrow(i) ==
  /\ kbd.tasks[i] # << >>
  /\ kbd' = [kbd EXCEPT !.tasks[i] = << >>]
  /\ UNCHANGED <<relayVars, scope, client, mouse, cli, media, lateVars>>

NextKbdFail ==
  \/ \E platform \in {"darwin", "win32"} : KbdBoot(platform)
  \/ \E key \in KeyNames : simulateKey(key)
  \/ \E parts \in Shortcuts : executeShortcut(parts)
  \/ \E i \in 1..MaxKeyCmds : i <= Len(kbd.tasks) /\ KeyEvent(i)
  \/ \E i \in 1..MaxKeyCmds : i <= Len(kbd.tasks) /\ KeyThrow(i)

SpecKbdFail == Init /\ [][NextKbdFail]_vars

\* C38: when the call sequence of a shortcut has ended, completed or cut
\* short by a failed call, every modifier it pressed has been released by it.
C38_ModifiersReleased ==
  \A i \in DOMAIN kbd.tasks :
    (kbd.cmds[i].fn = "simulateKeystroke" /\ kbd.tasks[i] = << >>) =>
      \A j \in DOMAIN kbd.events :
        (kbd.events[j].cmd = i /\ kbd.events[j].op = "press"
           /\ ~kbd.events[j].base) =>
          \E k \in (j + 1)..Len(kbd.events) :
            /\ kbd.events[k].cmd = i
            /\ kbd.events[k].op = "release"
            /\ kbd.events[k].key = kbd.events[j].key

====
